---- MODULE Spec2Model ----
(***************************************************************************)
(* Creative-effectiveness evaluation engine                                *)
(* (backend/creative_effectiveness/evaluation.py, roles.py, models.py).    *)
(*                                                                         *)
(* Numbers.  Scores (0..10) and confidences (0..1) are carried in tenths,  *)
(* role weights in tenths, so score x confidence x weight is an integer    *)
(* number of thousandths.  The Final Effectiveness Index is carried in     *)
(* tenths (0..1000 for 0.0..100.0), which is what round(x, 1) returns.     *)
(***************************************************************************)
EXTENDS Integers, Sequences, FiniteSets, TLC

VARIABLES
    input_data,            \* the EvaluationInput handed to run_creative_evaluation
    phase,                 \* position of the coordinating coroutine
    contextual_baseline,   \* the locked baseline, NoBaseline before step 1
    task,                  \* task[r]: position of role r's evaluate_role task
    responses,             \* responses[r]: what query_func gave role r's task
    evaluation,            \* evaluation[r]: the RoleEvaluation task r returned
    first_exception,       \* the exception the gather future was failed with
    overtaken,             \* history: some task finished while a task created
                           \* before it was still awaiting its query
    role_evaluations,      \* the list gather returned
    hard_gate_failed,
    failed_hard_gate_role,
    fei,
    final_report,
    outcome,               \* what the caller got: a result, an exception, or nothing yet
    reply_text,            \* a reply text handed to parse_evaluation_response
    embedded,              \* the fields of the JSON object written into reply_text
    parse_result,          \* what parse_evaluation_response returned for it
    sink,                  \* on_role_complete: absent, or how it behaves
    events,                \* events[r]: the calls of the sink for role r, in order
    late_queued,           \* history: a "queued" call came after a "processing" one
    request,               \* the body an evaluate endpoint was called with
    http,                  \* what the endpoint answered
    backend,               \* what query_func is: any capability, or query_llm
                           \* under the keys of config.py
    answers,               \* answers[r]: what the providers gave query_llm for role r
    queue,                 \* event_generator's asyncio.Queue
    role_results           \* event_generator's role_results: how many entries
                           \* with status "complete" it holds

vars == <<input_data, phase, contextual_baseline, task, responses, evaluation,
          first_exception, overtaken, role_evaluations, hard_gate_failed,
          failed_hard_gate_role, fei, final_report, outcome,
          reply_text, embedded, parse_result, sink, events, late_queued,
          request, http, backend, answers, queue, role_results>>

\* The variables of the parser on its own
parse_vars == <<reply_text, embedded, parse_result>>

\* The progress sink and what it was called with
sink_vars == <<sink, events, late_queued>>

\* The endpoint in front of the run
endpoint_vars == <<request, http>>

\* The model-query backend behind query_func
backend_vars == <<backend, answers>>

\* The state of event_generator between its yields
stream_vars == <<queue, role_results>>

----------------------------------------------------------------------------
(* roles.py *)

NumRoles == 8

RoleIds == 1..NumRoles

ROLES ==
    [r \in RoleIds |->
        CASE r = 1 -> [id |-> 1, name |-> "Creative Effectiveness Strategist",
                       is_hard_gate |-> FALSE, weight |-> 15]
          [] r = 2 -> [id |-> 2, name |-> "Commercial Impact Analyst",
                       is_hard_gate |-> TRUE, weight |-> 12]
          [] r = 3 -> [id |-> 3, name |-> "Brand Memory & Distinctiveness Specialist",
                       is_hard_gate |-> TRUE, weight |-> 12]
          [] r = 4 -> [id |-> 4, name |-> "Audience Reality & Behavioural Psychologist",
                       is_hard_gate |-> FALSE, weight |-> 10]
          [] r = 5 -> [id |-> 5, name |-> "Competitive & Category Context Analyst",
                       is_hard_gate |-> FALSE, weight |-> 10]
          [] r = 6 -> [id |-> 6, name |-> "Creative Pattern Breaker",
                       is_hard_gate |-> FALSE, weight |-> 8]
          [] r = 7 -> [id |-> 7, name |-> "Measurement & Evidence Validator",
                       is_hard_gate |-> FALSE, weight |-> 9]
          [] r = 8 -> [id |-> 8, name |-> "Market & Local Context Specialist",
                       is_hard_gate |-> FALSE, weight |-> 8]]

\* A variant of get_all_roles: the roles sorted by descending weight, as
\* sorted(ROLES.values(), key=lambda r: -r.weight) would list them
get_all_roles_by_weight ==
    [i \in 1..NumRoles |-> ROLES[<<1, 2, 3, 4, 5, 7, 6, 8>>[i]]]

\* list(ROLES.values()): insertion order of the dict, ids 1..8
get_all_roles == [i \in 1..NumRoles |-> ROLES[i]]

get_role_weights == [r \in RoleIds |-> ROLES[r].weight]

----------------------------------------------------------------------------
(* models.py *)

\* Optional[float] = None: the score of an evaluation that has none
NoScore == -1

MaxScore == 100        \* Field(le=10), in tenths

MaxConfidence == 10    \* Field(le=1), in tenths

\* str.__getitem__(slice(None, n)) on a text of the given length
Truncate(just, n) == [just EXCEPT !.len = IF just.len > n THEN n ELSE just.len]

Justification(text, len) == [text |-> text, len |-> len]

RoleEvaluation(role, result, score, confidence, justification, layer_scores) ==
    [role_id |-> role.id, role_name |-> role.name, is_hard_gate |-> role.is_hard_gate,
     result |-> result, score |-> score, confidence |-> confidence,
     justification |-> justification, layer_scores |-> layer_scores]

\* Whether the decimal text of the whole number m contains "429"
RECURSIVE DigitsHave429(_)
DigitsHave429(m) ==
    IF m < 429 THEN FALSE
    ELSE IF m % 1000 = 429 THEN TRUE
    ELSE DigitsHave429(m \div 10)

\* RoleEvaluation(...): pydantic rejects a result that is not Literal["PASS", "FAIL"],
\* a score outside ge=0, le=10 and a confidence that is absent or outside ge=0, le=1
BadResult(result) == result \notin {"PASS", "FAIL"}

BadScore(score) == score # NoScore /\ (score < 0 \/ score > MaxScore)

BadConfidence(confidence) ==
    confidence = NoScore \/ confidence < 0 \/ confidence > MaxConfidence

\* str(ValidationError) quotes each rejected input (input_value=...): whether
\* that text contains "429"
ValidationErrorHas429(result, score, confidence) ==
    \/ BadResult(result) /\ result = "429"
    \/ BadScore(score) /\ score > 0 /\ DigitsHave429(score \div 10)
    \/ BadConfidence(confidence) /\ confidence > 0 /\ DigitsHave429(confidence \div 10)

\* LayerScore(...): verdict is Literal["Pass", "Weak Pass", "Fail"]
BadVerdict(verdict) == verdict \notin {"Pass", "Weak Pass", "Fail"}

LayerScore(layer_id, layer_name, sub_scores, fail_conditions, evidence_notes, verdict) ==
    [layer_id |-> layer_id, layer_name |-> layer_name, sub_scores |-> sub_scores,
     fail_conditions |-> fail_conditions, evidence_notes |-> evidence_notes,
     verdict |-> verdict]

----------------------------------------------------------------------------
(* Reply texts.  A text is a sequence of tokens: runs of prose, white space,
   the fence marker ```, the word json, braces, whole "key": value members of
   a JSON object (separating commas included) and bare JSON numbers. *)

PROSE == [t |-> "prose"]
WS == [t |-> "ws"]
FENCE == [t |-> "fence"]
TAG == [t |-> "json"]
LBRACE == [t |-> "lbrace"]
RBRACE == [t |-> "rbrace"]
NUMBER == [t |-> "number"]

Member(k, v) == [t |-> "member", k |-> k, v |-> v]

\* A member "key": "value" whose string value has a fence marker or a brace in
\* it, which str.find and re.search see: the member up to the mark, the mark,
\* and the rest of the string with its closing quote
MemberStart(k, v) == [t |-> "member_start", k |-> k, v |-> v]

MemberEnd == [t |-> "member_end"]

MemberWith(k, v, mark) == <<MemberStart(k, v), mark, MemberEnd>>

\* A string that is never closed
BROKEN == [t |-> "broken"]

\* str.find(needle, start) over tokens: the least index >= start, 0 for -1
RECURSIVE FindFrom(_, _, _)
FindFrom(content, tok, start) ==
    IF start > Len(content) THEN 0
    ELSE IF content[start] = tok THEN start
    ELSE FindFrom(content, tok, start + 1)

\* content.find("```json")
RECURSIVE FindFenceJson(_, _)
FindFenceJson(content, start) ==
    IF start >= Len(content) THEN 0
    ELSE IF content[start] = FENCE /\ content[start + 1] = TAG THEN start
    ELSE FindFenceJson(content, start + 1)

\* str.rfind over tokens
RECURSIVE FindLast(_, _, _)
FindLast(content, tok, end) ==
    IF end < 1 THEN 0
    ELSE IF content[end] = tok THEN end
    ELSE FindLast(content, tok, end - 1)

\* str.strip()
RECURSIVE Strip(_)
Strip(content) ==
    IF content = <<>> THEN content
    ELSE IF Head(content) = WS THEN Strip(Tail(content))
    ELSE IF content[Len(content)] = WS THEN Strip(SubSeq(content, 1, Len(content) - 1))
    ELSE content

IsMember(tok) == tok.t = "member"

\* The JSON scanner reads a string to its closing quote, whatever it holds
RECURSIVE JoinStrings(_)
JoinStrings(toks) ==
    IF toks = <<>> THEN <<>>
    ELSE IF Head(toks).t = "member_start"
    THEN LET close == FindFrom(toks, MemberEnd, 2)
         IN  IF close = 0 THEN <<BROKEN>>
             ELSE <<Member(Head(toks).k, Head(toks).v)>>
                  \o JoinStrings(SubSeq(toks, close + 1, Len(toks)))
    ELSE <<Head(toks)>> \o JoinStrings(Tail(toks))

\* json.loads: [ok, type, items]; ok = FALSE stands for JSONDecodeError.  White
\* space between tokens is skipped; an object is { members }, a duplicate key
\* keeps its last value; a bare number decodes to a number.
json_loads(content) ==
    LET toks == JoinStrings(SelectSeq(content, LAMBDA tok : tok # WS))
        n == Len(toks)
        inner == SubSeq(toks, 2, n - 1)
        last(k) == CHOOSE i \in 1..Len(inner) :
                      /\ inner[i].k = k
                      /\ \A j \in (i + 1)..Len(inner) : inner[j].k # k
    IN  IF n >= 2 /\ toks[1] = LBRACE /\ toks[n] = RBRACE
           /\ \A i \in 1..Len(inner) : IsMember(inner[i])
        THEN [ok |-> TRUE, type |-> "dict",
              items |-> [k \in {inner[i].k : i \in 1..Len(inner)} |-> inner[last(k)].v]]
        ELSE IF toks = <<NUMBER>>
        THEN [ok |-> TRUE, type |-> "number", items |-> <<>>]
        ELSE [ok |-> FALSE, type |-> "none", items |-> <<>>]

\* re.search(r'\{[\s\S]*\}', content): from the first { to the last } after it
regex_brace_span(content) ==
    LET a == FindFrom(content, LBRACE, 1)
        b == FindLast(content, RBRACE, Len(content))
    IN  IF a > 0 /\ b > a THEN SubSeq(content, a, b) ELSE <<>>

FailedToParse ==
    [ok |-> TRUE, type |-> "dict",
     items |-> [result |-> "PASS", score |-> 50, confidence |-> 3,
                justification |-> Justification("Failed to parse response", 24)]]

\* The text between the opening marker (ending before token start) and the next
\* fence, when there is one and something stands between them
fenced_block(content, start) ==
    LET end == FindFrom(content, FENCE, start)
    IN  IF end > start THEN Strip(SubSeq(content, start, end - 1)) ELSE content

\* The first part of parse_evaluation_response: the content of the ```json
\* block if there is one, else of the first ``` block, else the text
extract_block(content) ==
    LET tagged == FindFenceJson(content, 1)
        fence == FindFrom(content, FENCE, 1)
    IN  IF tagged > 0 THEN fenced_block(content, tagged + 2)
        ELSE IF fence > 0 THEN fenced_block(content, fence + 1)
        ELSE content

\* A variant of parse_evaluation_response: the inner except without the
\* fallback behind it
parse_without_fallback(content) ==
    LET body == extract_block(content)
        whole == json_loads(body)
    IN  IF whole.ok THEN whole ELSE json_loads(regex_brace_span(body))

parse_evaluation_response(content) ==
    LET body == extract_block(content)
        whole == json_loads(body)
        span == regex_brace_span(body)
        part == json_loads(span)
    IN  IF whole.ok THEN whole
        ELSE IF span # <<>> /\ part.ok THEN part
        ELSE FailedToParse

\* dict.get(key, default)
Get(items, key, default) == IF key \in DOMAIN items THEN items[key] ELSE default

\* An exception: its class, whether str(e) contains "429", and the length of str(e)
Error(kind, has_429, len) == [kind |-> kind, has_429 |-> has_429, len |-> len]

NoError == Error("none", FALSE, 0)

\* What a call gives: a value, or the exception it raised
Returned(value) == [raised |-> FALSE, error |-> NoError, value |-> value]

Raised(error) == [raised |-> TRUE, error |-> error, value |-> <<>>]

\* One entry of parse_layer_scores' loop: data.get(...) needs a dict, and
\* LayerScore(...) validates the verdict
parse_layer_entry(entry) ==
    IF entry.type # "dict"
    THEN Raised(Error("AttributeError", FALSE, 35))
    ELSE LET verdict == Get(entry.data, "verdict", "Pass")
         IN  IF BadVerdict(verdict)
             THEN Raised(Error("ValidationError", verdict = "429", 200))
             ELSE Returned(LayerScore(entry.layer_id,
                                      Get(entry.data, "name", <<"Layer", entry.layer_id>>),
                                      Get(entry.data, "sub_scores", <<>>),
                                      Get(entry.data, "fail_conditions", <<>>),
                                      Get(entry.data, "evidence_notes", <<>>),
                                      verdict))

\* parse_layer_scores: layer_data.items() needs a dict; the first entry that
\* raises ends the loop
parse_layer_scores(layer_data) ==
    IF layer_data.type # "dict"
    THEN Raised(Error("AttributeError", FALSE, 38))
    ELSE LET parsed == [i \in 1..Len(layer_data.entries) |->
                            parse_layer_entry(layer_data.entries[i])]
             bad == {i \in 1..Len(parsed) : parsed[i].raised}
         IN  IF bad # {}
             THEN parsed[CHOOSE i \in bad : \A j \in bad : i <= j]
             ELSE Returned([i \in 1..Len(parsed) |-> parsed[i].value])

NoLayerData == [type |-> "dict", entries |-> <<>>]

\* The RoleEvaluation an exception other than a re-raised one degrades to
degraded_evaluation(role, e) ==
    RoleEvaluation(role, "PASS", 50, 2,
                   Justification("Evaluation error", 18 + e.len), <<>>)

\* A variant of handle_exception: the except clause without its re-raise
handle_exception_swallowing(role, e) == Returned(degraded_evaluation(role, e))

\* except Exception as e: if "429" in str(e): raise e
handle_exception(role, e) ==
    IF e.has_429 THEN Raised(e) ELSE Returned(degraded_evaluation(role, e))

\* A variant of no_response_evaluation: the confidence of the except branch
no_response_evaluation_as_error(role) ==
    RoleEvaluation(role, "PASS", 50, 2, Justification("Model query failed", 68), <<>>)

\* if response is None: the neutral low-confidence PASS
no_response_evaluation(role) ==
    RoleEvaluation(role, "PASS", 50, 3, Justification("Model query failed", 68), <<>>)

\* The body of evaluate_with_role from the point where query_func resolves.
\* resp: [kind |-> "none"], [kind |-> "raise", error |-> e] or
\* [kind |-> "reply", content |-> text]
evaluate_with_role(role, resp) ==
    IF resp.kind = "raise" THEN handle_exception(role, resp.error)
    ELSE IF resp.kind = "none"
    THEN Returned(no_response_evaluation(role))
    ELSE LET parsed == parse_evaluation_response(resp.content)
         IN  IF parsed.type # "dict"
             THEN handle_exception(role, Error("AttributeError", FALSE, 35))
             ELSE LET result == Get(parsed.items, "result", "PASS")
                      score == Get(parsed.items, "score", NoScore)
                      confidence == Get(parsed.items, "confidence", 5)
                      justification == Get(parsed.items, "justification",
                                           Justification("No justification provided", 25))
                      layers == parse_layer_scores(
                                    Get(parsed.items, "layer_scores", NoLayerData))
                  IN  IF layers.raised THEN handle_exception(role, layers.error)
                      ELSE IF BadResult(result) \/ BadScore(score) \/ BadConfidence(confidence)
                      THEN handle_exception(role,
                               Error("ValidationError",
                                     ValidationErrorHas429(result, score, confidence), 200))
                      ELSE Returned(RoleEvaluation(role, result, score, confidence,
                                                   justification, layers.value))

----------------------------------------------------------------------------
(* Final Effectiveness Index *)

PatternBreakerId == 6        \* calculate_fei's pattern_breaker_id default

PenaltyFactor == 5           \* 0.5, in tenths

DefaultWeight == 10          \* weights.get(eval.role_id, 1.0), in tenths

MaxPossible == 80            \* max_possible

\* eval.score or 0
ScoreOr0(score) == IF score = NoScore THEN 0 ELSE score

\* eval.score and ...: None and 0.0 are both falsy
Truthy(score) == score # NoScore /\ score # 0

\* A variant of fei_loop: the loop without its skip of FAIL evaluations
RECURSIVE fei_loop_counting_fails(_, _, _, _)
fei_loop_counting_fails(evals, i, total, penalty) ==
    IF i > Len(evals) THEN [total |-> total, penalty |-> penalty]
    ELSE LET e == evals[i]
         IN  IF e.role_id = PatternBreakerId
             THEN fei_loop_counting_fails(evals, i + 1, total,
                                          ScoreOr0(e.score) * e.confidence * PenaltyFactor)
             ELSE fei_loop_counting_fails(evals, i + 1,
                                          total + ScoreOr0(e.score) * e.confidence
                                                    * ROLES[e.role_id].weight,
                                          penalty)

\* The loop of calculate_fei over the list, from index i on: total and
\* pattern_breaker_penalty in thousandths
RECURSIVE fei_loop(_, _, _, _)
fei_loop(evals, i, total, penalty) ==
    IF i > Len(evals) THEN [total |-> total, penalty |-> penalty]
    ELSE LET e == evals[i]
         IN  IF e.result = "FAIL" THEN fei_loop(evals, i + 1, total, penalty)
             ELSE IF e.role_id = PatternBreakerId
             THEN fei_loop(evals, i + 1, total,
                           ScoreOr0(e.score) * e.confidence * PenaltyFactor)
             ELSE fei_loop(evals, i + 1,
                           total + ScoreOr0(e.score) * e.confidence
                                     * Get(get_role_weights, e.role_id, DefaultWeight),
                           penalty)

Max(a, b) == IF a >= b THEN a ELSE b

Min(a, b) == IF a <= b THEN a ELSE b

\* A variant of round_1: the digits after the first decimal cut off
round_1_truncating(n, tie_up) == n \div MaxPossible

\* round(x, 1), in tenths, of x = n / (10 * MaxPossible).  Python rounds the
\* binary double: off an exact decimal tie that is the nearest tenth; on one, the
\* accumulated representation error of x decides, either way (tie_up).
round_1(n, tie_up) ==
    LET q == n \div MaxPossible
        r == n % MaxPossible
    IN  IF 2 * r < MaxPossible THEN q
        ELSE IF 2 * r > MaxPossible THEN q + 1
        ELSE IF tie_up THEN q + 1 ELSE q

\* A variant of calculate_fei: the penalty not subtracted
calculate_fei_without_penalty(evals, tie_up) ==
    LET acc == fei_loop(evals, 1, 0, 0)
    IN  round_1(Min(1000 * MaxPossible, Max(0, acc.total)), tie_up)

\* A variant of calculate_fei: fei = total - pattern_breaker_penalty and
\* min(100, normalized), both without max(0, .)
calculate_fei_unclamped(evals, tie_up) ==
    LET acc == fei_loop(evals, 1, 0, 0)
    IN  round_1(Min(1000 * MaxPossible, acc.total - acc.penalty), tie_up)

\* calculate_fei, the result in tenths.  total and the penalty are in
\* thousandths, so normalized = fei / max_possible * 100 is raw / MaxPossible
\* tenths, and min(100, .) cuts raw at 1000 * MaxPossible.
calculate_fei(evals, tie_up) ==
    LET acc == fei_loop(evals, 1, 0, 0)
        raw == Max(0, acc.total - acc.penalty)
        clamped == Min(1000 * MaxPossible, Max(0, raw))
    IN  round_1(clamped, tie_up)

----------------------------------------------------------------------------
(* Final report *)

StrengthBudget == 200     \* e.justification[:200]

RiskBudget == 150         \* eval.justification[:150]

MaxListed == 3            \* passing[:3], risks[:3]

\* list[:n]
Take(seq, n) == SubSeq(seq, 1, Min(n, Len(seq)))

\* key=lambda x: (x.score or 0) * x.confidence
StrengthKey(e) == ScoreOr0(e.score) * e.confidence

\* list.sort(key=..., reverse=True): descending and stable, so an element goes
\* after every element whose key is not smaller
RECURSIVE InsertByKey(_, _)
InsertByKey(sorted, e) ==
    IF sorted = <<>> THEN <<e>>
    ELSE IF StrengthKey(Head(sorted)) >= StrengthKey(e)
    THEN <<Head(sorted)>> \o InsertByKey(Tail(sorted), e)
    ELSE <<e>> \o sorted

RECURSIVE SortDescending(_)
SortDescending(seq) ==
    IF seq = <<>> THEN <<>>
    ELSE CHOOSE result \in
             {InsertByKey(sorted, seq[Len(seq)]) :
                 sorted \in {SortDescending(SubSeq(seq, 1, Len(seq) - 1))}} : TRUE

HasFails(evals) == \E i \in 1..Len(evals) : evals[i].result = "FAIL"

RecommendAt == 700        \* fei >= 70

ReviseAt == 400           \* fei >= 40

\* A variant of Verdict: the thresholds alone, without has_fails
Verdict_ignoring_fails(evals, index) ==
    IF index >= RecommendAt THEN "RECOMMEND"
    ELSE IF index >= ReviseAt THEN "REVISE BEFORE RECOMMENDATION"
    ELSE "DO NOT RECOMMEND"

Verdict(evals, index) ==
    IF HasFails(evals) THEN "DO NOT RECOMMEND"
    ELSE IF index >= RecommendAt THEN "RECOMMEND"
    ELSE IF index >= ReviseAt THEN "REVISE BEFORE RECOMMENDATION"
    ELSE "DO NOT RECOMMEND"

\* An entry of top_strengths or top_risks: the text, and (not part of the
\* string) the role it was taken from; prefixed entries start with the role name
Entry(kind, role_id, text) == [kind |-> kind, role_id |-> role_id, text |-> text]

Strengths(evals) ==
    LET passing == SelectSeq(evals, LAMBDA e :
                       e.result = "PASS" /\ Truthy(e.score) /\ e.score >= 70)
        ranked == SortDescending(passing)
        top == Take(ranked, MaxListed)
    IN  [i \in 1..Len(top) |->
            Entry("justification", top[i].role_id,
                  Truncate(top[i].justification, StrengthBudget))]

RECURSIVE risks_loop(_, _)
risks_loop(evals, i) ==
    IF i > Len(evals) THEN <<>>
    ELSE LET e == evals[i]
             rest == risks_loop(evals, i + 1)
         IN  IF e.role_id = 6
             THEN <<Entry("justification", e.role_id,
                          Truncate(e.justification, StrengthBudget))>> \o rest
             ELSE IF Truthy(e.score) /\ e.score < 50
             THEN <<Entry("role_name: justification", e.role_id,
                          Truncate(e.justification, RiskBudget))>> \o rest
             ELSE rest

Risks(evals) == Take(risks_loop(evals, 1), MaxListed)

NoText == Justification("", 0)

\* "long-term" in campaign_objective.lower(), over the values of CampaignObjective
CommercialRole(campaign_objective) ==
    CASE campaign_objective = "Long-term brand growth" -> "Brand growth"
      [] campaign_objective = "Short-term activation" -> "Activation"
      [] campaign_objective = "Mixed" -> "Both"
      [] OTHER -> "Brand growth"

RECURSIVE SumConfidence(_, _)
SumConfidence(evals, i) ==
    IF i > Len(evals) THEN 0 ELSE evals[i].confidence + SumConfidence(evals, i + 1)

\* avg_confidence >= 0.8 / >= 0.5, on the exact mean of the tenths
ConfidenceLevel(evals) ==
    IF SumConfidence(evals, 1) >= 8 * Len(evals) THEN "High"
    ELSE IF SumConfidence(evals, 1) >= 5 * Len(evals) THEN "Medium"
    ELSE "Low"

\* revision_guidance: the first three role names with a score below 6, None
\* (the empty list here) otherwise
RevisionGuidance(evals, verdict) ==
    LET weak == SelectSeq(evals, LAMBDA e : Truthy(e.score) /\ e.score < 60)
    IN  IF verdict = "REVISE BEFORE RECOMMENDATION"
        THEN [i \in 1..Min(MaxListed, Len(weak)) |-> weak[i].role_name]
        ELSE <<>>

generate_final_report(evals, index, campaign_objective) ==
    LET verdict == Verdict(evals, index)
        strengths == Strengths(evals)
        risks == Risks(evals)
    IN  [verdict |-> verdict,
         top_strengths |->
            IF strengths # <<>> THEN strengths
            ELSE <<Entry("Insufficient data for strength identification", 0, NoText)>>,
         top_risks |->
            IF risks # <<>> THEN risks
            ELSE <<Entry("No material risks identified", 0, NoText)>>,
         predicted_commercial_role |-> CommercialRole(campaign_objective),
         revision_guidance |-> RevisionGuidance(evals, verdict),
         confidence_level |-> ConfidenceLevel(evals)]

----------------------------------------------------------------------------
(* Analysis appendix *)

DampenerBelow == 7        \* e.confidence < 0.7

\* layer_matrices[ls.layer_id] = ls over all roles in list order: the last
\* writer of a layer id stays
RECURSIVE AllLayerScores(_, _)
AllLayerScores(evals, i) ==
    IF i > Len(evals) THEN <<>>
    ELSE evals[i].layer_scores \o AllLayerScores(evals, i + 1)

LayerMatrices(evals) ==
    LET all == AllLayerScores(evals, 1)
        last(id) == CHOOSE i \in 1..Len(all) :
                       /\ all[i].layer_id = id
                       /\ \A j \in (i + 1)..Len(all) : all[j].layer_id # id
    IN  [id \in {all[i].layer_id : i \in 1..Len(all)} |-> all[last(id)]]

\* list(set(risk_register)): the distinct fail conditions, in no fixed order
RiskRegister(evals) ==
    LET all == AllLayerScores(evals, 1)
    IN  UNION {{all[i].fail_conditions[j] : j \in 1..Len(all[i].fail_conditions)} :
               i \in 1..Len(all)}

RoleNames(evals) == [i \in 1..Len(evals) |-> evals[i].role_name]

generate_analysis_appendix(evals, baseline, index) ==
    [contextual_baseline |-> baseline,
     layer_matrices |-> LayerMatrices(evals),
     fail_register |->
        LET failed == SelectSeq(evals, LAMBDA e : e.result = "FAIL")
        IN  [i \in 1..Len(failed) |->
                Entry("role_name: justification", failed[i].role_id,
                      Truncate(failed[i].justification, 100))],
     risk_register |-> RiskRegister(evals),
     raw_score_summary |->
        LET scored == SelectSeq(evals, LAMBDA e : Truthy(e.score))
        IN  [i \in 1..Len(scored) |-> <<scored[i].role_name, scored[i].score>>],
     confidence_dampeners |->
        RoleNames(SelectSeq(evals, LAMBDA e : e.confidence < DampenerBelow)),
     verdict_traceability |->
        [verdict |-> RoleNames(evals),
         strengths |-> RoleNames(SelectSeq(evals, LAMBDA e :
                                     Truthy(e.score) /\ e.score >= 70)),
         risks |-> RoleNames(SelectSeq(evals, LAMBDA e :
                                 Truthy(e.score) /\ e.score < 50))]]

----------------------------------------------------------------------------
(* Contextual baseline *)

NoCompetitiveContext == "None"

\* build_contextual_baseline: bullets[:5] of the five bullets built
build_contextual_baseline(inp) ==
    LET noise == IF inp.competitive_context # NoCompetitiveContext
                 THEN inp.competitive_context ELSE "Medium"
        bullets ==
            << <<"Brand Status", inp.brand_status>>,
               <<"Market", inp.market_maturity, inp.category_clutter>>,
               <<"Purchase", inp.purchase_frequency, inp.decision_involvement>>,
               IF inp.competitive_context # NoCompetitiveContext
               THEN <<"Competitive noise", inp.competitive_context>>
               ELSE <<"Competitive noise", "Medium (assumed)">>,
               <<"Objective", inp.campaign_objective>> >>
    IN  [brand_status |-> inp.brand_status,
         market_maturity |-> inp.market_maturity,
         category_clutter |-> inp.category_clutter,
         purchase_frequency |-> inp.purchase_frequency,
         decision_involvement |-> inp.decision_involvement,
         competitive_noise |-> noise,
         summary_bullets |-> Take(bullets, 5)]

----------------------------------------------------------------------------
(* What the environment supplies: the input and, per role, what query_func
   does with the role's messages *)

InputSamples ==
    { [brand_status |-> "Market Leader", market_maturity |-> "Mature",
       category_clutter |-> "High", purchase_frequency |-> "High",
       decision_involvement |-> "Low", campaign_objective |-> "Mixed",
       competitive_context |-> NoCompetitiveContext] }

Object(members) == <<LBRACE>> \o members \o <<RBRACE>>

\* prose, a ```json block, prose
Fenced(body) == <<PROSE, WS, FENCE, TAG, WS>> \o body \o <<WS, FENCE, WS, PROSE>>

ReplyJustification == Justification("reply", 260)

VerdictObject(result, score, confidence) ==
    Object(<<Member("result", result), Member("score", score),
             Member("confidence", confidence),
             Member("justification", ReplyJustification)>>)

NoResponse == [kind |-> "none", error |-> NoError, content |-> <<>>]

Raise(e) == [kind |-> "raise", error |-> e, content |-> <<>>]

Reply(content) == [kind |-> "reply", error |-> NoError, content |-> content]

\* The reply every role gets unless the run deviates: PASS, score 8.0 (the
\* pattern breaker: 2.0), confidence 0.9, in a ```json block inside prose
NominalReply ==
    [r \in RoleIds |->
        Reply(Fenced(VerdictObject("PASS", IF r = PatternBreakerId THEN 20 ELSE 80, 9)))]

\* HTTP 429 from the provider: str(e) carries the status code
RateLimitError == Error("RateLimit", TRUE, 40)

\* Any other failure of the query, e.g. a connection error
QueryError == Error("QueryError", FALSE, 40)

\* Another failure whose text happens to contain the digits 429, e.g. a
\* server error quoting a request id or a byte count
QueryErrorQuoting429 == Error("QueryError", TRUE, 40)

\* A reply whose score is out of range: {"result": "PASS", "score": 429,
\* "confidence": 0.9}
ReplyScore429 ==
    Reply(Object(<<Member("result", "PASS"), Member("score", 4290),
                   Member("confidence", 9)>>))

\* A verdict with the lowest score there is
ReplyScoreZero ==
    Reply(Object(<<Member("result", "PASS"), Member("score", 0),
                   Member("confidence", 9),
                   Member("justification", ReplyJustification)>>))

\* A FAIL whose confidence is on the percent scale: {"result": "FAIL",
\* "confidence": 90, "justification": ...}
ReplyFailConfidencePercent ==
    Reply(Object(<<Member("result", "FAIL"), Member("confidence", 900),
                   Member("justification", ReplyJustification)>>))

\* One entry of a layer_scores object: "A": {"verdict": verdict}
LayerEntry(layer_id, verdict) ==
    [type |-> "dict", layer_id |-> layer_id, data |-> [verdict |-> verdict]]

\* "A": 7, a layer given as a bare number
LayerNumber(layer_id) == [type |-> "number", layer_id |-> layer_id, data |-> <<>>]

\* A FAIL with the layer_scores object given
ReplyFailWithLayers(entries) ==
    Reply(Object(<<Member("result", "FAIL"), Member("confidence", 9),
                   Member("justification", ReplyJustification),
                   Member("layer_scores", [type |-> "dict", entries |-> entries])>>))

\* What else query_func may do for a role
Deviations ==
    { NoResponse,
      ReplyScore429,
      ReplyScoreZero,
      ReplyFailConfidencePercent,
      ReplyFailWithLayers(<<LayerEntry("A", "Fail")>>),
      ReplyFailWithLayers(<<LayerEntry("A", "Strong Fail")>>),
      ReplyFailWithLayers(<<LayerNumber("A")>>),
      Raise(RateLimitError),
      Raise(QueryError),
      Raise(QueryErrorQuoting429),
      Reply(<<PROSE>>),
      Reply(Object(<<Member("result", "FAIL"), Member("score", 30),
                     Member("confidence", 9),
                     Member("justification", ReplyJustification)>>)) }

\* At most this many roles of a run get something other than the nominal reply
MaxDeviations == 2

QueryOutcomes == [r \in RoleIds |-> {NominalReply[r]} \cup Deviations]

\* Verdicts a role may reply with: the best one, a weak one, a FAIL that still
\* carries a score, and a bare object that leaves score and confidence out
ScoredReplies ==
    { Reply(Fenced(VerdictObject("PASS", 100, 10))),
      Reply(Fenced(VerdictObject("PASS", 30, 9))),
      Reply(Object(<<Member("result", "FAIL"), Member("score", 30),
                     Member("confidence", 9),
                     Member("justification", ReplyJustification)>>)),
      Reply(<<PROSE, WS>> \o Object(<<Member("result", "PASS")>>)) }

\* evaluate_with_role for every role and everything its query may give
RoleOutcome ==
    [r \in RoleIds |->
        [resp \in QueryOutcomes[r] \cup ScoredReplies |->
            evaluate_with_role(ROLES[r], resp)]]

----------------------------------------------------------------------------
(* run_creative_evaluation *)

NoBaseline == <<>>

NoObject == [form |-> "none"]

NotParsed == [ok |-> FALSE, type |-> "pending", items |-> <<>>]

NoEvaluation == [role_id |-> 0]

NoReport == <<>>

NotYet == [kind |-> "pending", error |-> NoError, content |-> <<>>]

NoException == [error |-> NoError, role |-> 0]

Pending == [kind |-> "pending"]

\* on_role_complete=None
NoSink == [kind |-> "none"]

\* A sink that takes every call and returns
RecordingSink == [kind |-> "recording"]

\* The places the sink is called from: the queued loop of
\* run_creative_evaluation, evaluate_role before evaluate_with_role ("task"),
\* evaluate_with_role before its try ("building"), inside it before the query
\* ("querying") and after a reply ("parsing"), and evaluate_role at the end
SinkSites == {"queued", "task", "building", "querying", "parsing", "complete"}

\* The roles for which a misbehaving sink is tried
SinkRoleSamples == {2, 5}

\* A sink that raises on its call from one site for one role; has_429: whether
\* the text of what it raises contains "429"
RaisingSinks ==
    { [kind |-> "raising", site |-> site, role |-> r, has_429 |-> b] :
      site \in SinkSites, r \in SinkRoleSamples, b \in BOOLEAN }

SinkRaises(site, r) == sink.kind = "raising" /\ sink.site = site /\ sink.role = r

SinkError == Error("SinkError", sink.kind = "raising" /\ sink.has_429, 30)

NoEvents == [r \in RoleIds |-> <<>>]

\* A variant of Event: every call made with None for the result
Event_without_result(status, note, result) ==
    [status |-> status, note |-> note, result |-> NoEvaluation]

\* One call on_role_complete(role.name, result, status=..., justification=...)
Event(status, note, result) == [status |-> status, note |-> note, result |-> result]

\* The calls made for a role, none when there is no sink
Called(calls) == IF sink = NoSink THEN <<>> ELSE calls

\* event_generator's on_role_complete, which puts one event per call on the queue
QueueSink == [kind |-> "queue"]

\* One event of the stream; progress is 0 for the types that carry none.  The
\* role payload of an event is left out.
SSE(type, status, progress) == [type |-> type, status |-> status, progress |-> progress]

\* The event on_role_complete builds for a call: role_complete with progress =
\* len([r for r in role_results if r.get('status') == 'complete']) + 1, else
\* role_update
StreamEvents(calls, completed) ==
    [i \in 1..Len(calls) |->
        IF calls[i].status = "complete"
        THEN SSE("role_complete", "complete",
                 completed
                 + Cardinality({j \in 1..(i - 1) : calls[j].status = "complete"}) + 1)
        ELSE SSE("role_update", calls[i].status, 0)]

\* queue.put_nowait(event) for each call, role_results.append for each complete
Enqueue(calls) ==
    IF sink = QueueSink
    THEN /\ queue' = queue \o StreamEvents(calls, role_results)
         /\ role_results' =
               role_results
               + Cardinality({i \in 1..Len(calls) : calls[i].status = "complete"})
    ELSE UNCHANGED stream_vars

HasProcessing(log) == \E i \in 1..Len(log) : log[i].status = "processing"

\* No endpoint in front: run_creative_evaluation is called directly
NoRequest == [endpoint |-> "none"]

NotAnswered == [kind |-> "none"]

\* With a sink attached or behind an endpoint, at most this many roles of a
\* run deviate
MaxSinkDeviations == 1

\* query_func as run_creative_evaluation sees it: a capability that returns a
\* response or None, or raises
AnyQueryFunc == [query_func |-> "any"]

\* A provider query_llm did not call
NotCalled == [kind |-> "not called"]

NotAsked == [gemini |-> NotCalled, openrouter |-> NotCalled]

DeviationBudget ==
    IF sink = NoSink /\ request = NoRequest THEN MaxDeviations ELSE MaxSinkDeviations

\* The roles for which a deviation is tried when the run streams its progress
StreamRoleSamples == {2, 5}

DeviatingRoles == IF sink = QueueSink THEN StreamRoleSamples ELSE RoleIds

Deviating == {r \in RoleIds : responses[r] # NotYet /\ responses[r] # NominalReply[r]}

Init ==
    /\ input_data \in InputSamples
    /\ phase = "Initialized"
    /\ contextual_baseline = NoBaseline
    /\ task = [r \in RoleIds |-> "none"]
    /\ responses = [r \in RoleIds |-> NotYet]
    /\ evaluation = [r \in RoleIds |-> NoEvaluation]
    /\ first_exception = NoException
    /\ overtaken = FALSE
    /\ role_evaluations = <<>>
    /\ hard_gate_failed = FALSE
    /\ failed_hard_gate_role = "None"
    /\ fei = 0
    /\ final_report = NoReport
    /\ outcome = Pending
    /\ reply_text = <<>>
    /\ embedded = NoObject
    /\ parse_result = NotParsed
    /\ sink = NoSink
    /\ events = NoEvents
    /\ late_queued = FALSE
    /\ request = NoRequest
    /\ backend = AnyQueryFunc
    /\ answers = [r \in RoleIds |-> NotAsked]
    /\ queue = <<>>
    /\ role_results = 0
    /\ http = NotAnswered

\* Step 1: contextual_baseline = build_contextual_baseline(input_data)
LockBaseline ==
    /\ phase = "Initialized"
    /\ phase' = "BaselineLocked"
    /\ contextual_baseline' = build_contextual_baseline(input_data)
    /\ UNCHANGED <<sink_vars, parse_vars, endpoint_vars, backend_vars, stream_vars, overtaken, input_data, task, responses, evaluation, first_exception,
                   role_evaluations, hard_gate_failed, failed_hard_gate_role,
                   fei, final_report, outcome>>

\* Step 2: roles = get_all_roles(); asyncio.gather wraps one evaluate_role
\* coroutine per role in a task, and the coordinator suspends on the gather
\* Before that, with a sink, the loop that reports every role as "queued": a
\* call that raises ends run_creative_evaluation there.
DispatchRoles ==
    /\ phase = "BaselineLocked"
    /\ LET roles == get_all_roles
           raising == {i \in 1..Len(roles) : SinkRaises("queued", roles[i].id)}
           stop == IF raising = {} THEN 0
                   ELSE CHOOSE i \in raising : \A j \in raising : i <= j
           told == IF stop = 0 THEN Len(roles) ELSE stop
       IN  /\ events' = [r \in RoleIds |->
                           IF \E i \in 1..told : roles[i].id = r
                           THEN events[r] \o Called(<<Event("queued", "", NoEvaluation)>>)
                           ELSE events[r]]
           /\ Enqueue([i \in 1..told |-> Event("queued", "", NoEvaluation)])
           /\ late_queued' = (late_queued
                               \/ (sink # NoSink
                                   /\ \E r \in RoleIds : HasProcessing(events[r])))
           /\ IF stop > 0
              THEN /\ phase' = "Failed"
                   /\ outcome' = [kind |-> "raised", error |-> SinkError,
                                  role |-> roles[stop].id]
                   /\ UNCHANGED task
              ELSE /\ phase' = "RolesDispatched"
                   /\ task' = [r \in RoleIds |->
                                 IF \E i \in 1..Len(roles) : roles[i].id = r
                                 THEN "created" ELSE "none"]
                   /\ UNCHANGED outcome
    /\ UNCHANGED <<sink, parse_vars, endpoint_vars, backend_vars, overtaken, input_data, contextual_baseline,
                   responses, evaluation, first_exception, role_evaluations,
                   hard_gate_failed, failed_hard_gate_role, fei, final_report>>

\* The event loop runs the tasks' first steps in the order gather created
\* them; a task runs up to its await of query_func
\* On the way the sink is called three times with "processing".  A call that
\* raises before the try ends the task with that exception; the call inside
\* the try is handled like any exception of the query, and the task goes on
\* to its "complete" call without having queried.
StartRole(r) ==
    /\ task[r] = "created"
    /\ \A q \in RoleIds : q < r => task[q] # "created"
    /\ LET escaped == SinkRaises("task", r) \/ SinkRaises("building", r)
           handled == handle_exception(ROLES[r], SinkError)
           done == IF escaped THEN Raised(SinkError) ELSE handled
           finished == escaped \/ SinkRaises("querying", r)
           calls ==
               <<Event("processing", "", NoEvaluation)>>
               \o (IF SinkRaises("task", r) THEN <<>>
                   ELSE <<Event("processing", "Building evaluation framework...",
                                NoEvaluation)>>)
               \o (IF escaped THEN <<>>
                   ELSE <<Event("processing", "Querying specialist LLM...",
                                NoEvaluation)>>)
               \o (IF finished /\ ~done.raised
                   THEN <<Event("complete", "", done.value)>> ELSE <<>>)
       IN  /\ events' = [events EXCEPT ![r] = @ \o Called(calls)]
           /\ Enqueue(calls)
           /\ task' = [task EXCEPT ![r] = IF ~finished THEN "querying"
                                          ELSE IF done.raised THEN "raised"
                                          ELSE "returned"]
           /\ evaluation' = [evaluation EXCEPT
                               ![r] = IF finished /\ ~done.raised THEN done.value
                                      ELSE @]
           /\ first_exception' =
                 IF finished /\ done.raised /\ first_exception = NoException
                 THEN [error |-> done.error, role |-> r] ELSE first_exception
    /\ UNCHANGED <<sink, late_queued, parse_vars, endpoint_vars, backend_vars, overtaken, input_data, phase,
                   contextual_baseline, responses, role_evaluations,
                   hard_gate_failed, failed_hard_gate_role, fei, final_report,
                   outcome>>

\* The task of role r from the point where query_func gave resp: it runs to
\* its end and returns a RoleEvaluation or raises.  The first task to raise
\* fails the gather future.
TaskResumes(r, resp) ==
       \E inner \in {IF resp.kind = "reply" /\ SinkRaises("parsing", r)
                     THEN handle_exception(ROLES[r], SinkError)
                     ELSE RoleOutcome[r][resp]} :
       \E done \in {IF ~inner.raised /\ SinkRaises("complete", r)
                    THEN Raised(SinkError) ELSE inner} :
        LET calls ==
                (IF resp.kind = "reply"
                 THEN <<Event("processing", "Parsing specialist response...",
                              NoEvaluation)>>
                 ELSE <<>>)
                \o (IF inner.raised THEN <<>>
                    ELSE <<Event("complete", "", inner.value)>>)
        IN  /\ events' = [events EXCEPT ![r] = @ \o Called(calls)]
            /\ Enqueue(calls)
            /\ responses' = [responses EXCEPT ![r] = resp]
            /\ task' = [task EXCEPT ![r] = IF done.raised THEN "raised" ELSE "returned"]
            /\ evaluation' = [evaluation EXCEPT
                                ![r] = IF done.raised THEN NoEvaluation ELSE done.value]
            /\ first_exception' =
                  IF done.raised /\ first_exception = NoException
                  THEN [error |-> done.error, role |-> r] ELSE first_exception

\* query_func resolves for role r and the task runs to its end.  A task is
\* resumed in a later iteration of the event loop than the one that runs the
\* first steps of all the tasks gather created.
QueryResolves(r) ==
    /\ task[r] = "querying"
    /\ \A q \in RoleIds : task[q] # "created"
    /\ \E resp \in QueryOutcomes[r] :
        /\ resp # NominalReply[r] =>
              (r \in DeviatingRoles /\ Cardinality(Deviating) < DeviationBudget)
        /\ TaskResumes(r, resp)
    /\ overtaken' = (overtaken \/ \E q \in RoleIds : q < r /\ task[q] = "querying")
    /\ UNCHANGED <<sink, late_queued, parse_vars, endpoint_vars, backend_vars, input_data, phase,
                   contextual_baseline, role_evaluations, hard_gate_failed,
                   failed_hard_gate_role, fei, final_report, outcome>>

\* A variant of first_hard_gate_fail: the break taken at the first hard-gate
\* role, whether it failed or not
RECURSIVE first_gate_if_failed(_, _)
first_gate_if_failed(evals, i) ==
    IF i > Len(evals) THEN 0
    ELSE IF evals[i].is_hard_gate
    THEN (IF evals[i].result = "FAIL" THEN i ELSE 0)
    ELSE first_gate_if_failed(evals, i + 1)

\* A variant of first_hard_gate_fail: the scan keeps going and the last
\* hard-gate FAIL in list order wins
RECURSIVE last_hard_gate_fail(_, _)
last_hard_gate_fail(evals, i) ==
    IF i > Len(evals) THEN 0
    ELSE LET later == last_hard_gate_fail(evals, i + 1)
         IN  IF later > 0 THEN later
             ELSE IF evals[i].is_hard_gate /\ evals[i].result = "FAIL" THEN i
             ELSE 0

\* The hard gate scan of step 3: the first hard-gate FAIL in list order
RECURSIVE first_hard_gate_fail(_, _)
first_hard_gate_fail(evals, i) ==
    IF i > Len(evals) THEN 0
    ELSE IF evals[i].is_hard_gate /\ evals[i].result = "FAIL" THEN i
    ELSE first_hard_gate_fail(evals, i + 1)

\* A variant of gather: the results up to the first failed hard gate only
gather_until_gate(results) ==
    LET all == [i \in 1..Len(get_all_roles) |-> results[get_all_roles[i].id]]
        gates == {i \in 1..Len(all) : all[i].is_hard_gate /\ all[i].result = "FAIL"}
    IN  IF gates = {} THEN all
        ELSE SubSeq(all, 1, CHOOSE i \in gates : \A j \in gates : i <= j)

\* A variant of gather: the results from the last awaitable to the first
gather_in_reverse(results) ==
    [i \in 1..Len(get_all_roles) |->
        results[get_all_roles[Len(get_all_roles) + 1 - i].id]]

\* What asyncio.gather(*tasks) returns when every task has returned: the
\* results in the order of the awaitables passed
gather(results) == [i \in 1..Len(get_all_roles) |-> results[get_all_roles[i].id]]

\* await asyncio.gather(...) returns; step 3 scans for a failed hard gate
GatherReturns ==
    /\ phase = "RolesDispatched"
    /\ \A r \in RoleIds : task[r] \in {"none", "returned"}
    /\ LET evals == gather(evaluation)
           failed == first_hard_gate_fail(evals, 1)
       IN  /\ role_evaluations' = evals
           /\ hard_gate_failed' = (failed > 0)
           /\ failed_hard_gate_role' =
                 IF failed > 0 THEN evals[failed].role_name ELSE "None"
           /\ phase' = IF failed > 0 THEN "HardGateShortCircuited"
                       ELSE "AllRolesComplete"
    /\ UNCHANGED <<sink_vars, parse_vars, endpoint_vars, backend_vars, stream_vars, overtaken, input_data, contextual_baseline, task, responses, evaluation,
                   first_exception, fei, final_report, outcome>>

\* await asyncio.gather(...) raises the first exception a task raised.  The
\* coordinator is woken after the first steps of all tasks, which were queued
\* before it suspended; tasks still querying are left running.
GatherRaises ==
    /\ phase = "RolesDispatched"
    /\ first_exception # NoException
    /\ \A r \in RoleIds : task[r] # "created"
    /\ phase' = "Failed"
    /\ outcome' = [kind |-> "raised", error |-> first_exception.error,
                   role |-> first_exception.role]
    /\ UNCHANGED <<sink_vars, parse_vars, endpoint_vars, backend_vars, stream_vars, overtaken, input_data, contextual_baseline, task, responses, evaluation,
                   first_exception, role_evaluations, hard_gate_failed,
                   failed_hard_gate_role, fei, final_report>>

\* Steps 4 & 5: fei = 0.0 if hard_gate_failed else calculate_fei(role_evaluations)
CalculateIndex ==
    /\ phase \in {"AllRolesComplete", "HardGateShortCircuited"}
    /\ phase' = "Aggregated"
    /\ \E tie_up \in BOOLEAN :
          fei' = IF hard_gate_failed THEN 0 ELSE calculate_fei(role_evaluations, tie_up)
    /\ UNCHANGED <<sink_vars, parse_vars, endpoint_vars, backend_vars, stream_vars, overtaken, input_data, contextual_baseline, task, responses, evaluation,
                   first_exception, role_evaluations, hard_gate_failed,
                   failed_hard_gate_role, final_report, outcome>>

\* The override of step 6: final_report.verdict = ..., top_risks.insert(0, ...)
override_hard_gate(report, role_name) ==
    [report EXCEPT !.verdict = "DO NOT RECOMMEND",
                   !.top_risks = <<Entry("HARD GATE FAILED: role_name", 0,
                                         Justification(role_name, 0))>> \o @]

\* Step 6: the report, the hard-gate override, the appendix, and the return
GenerateOutputs ==
    /\ phase = "Aggregated"
    /\ phase' = "Reported"
    /\ LET generated == generate_final_report(role_evaluations, fei,
                                              input_data.campaign_objective)
           report == IF hard_gate_failed
                     THEN override_hard_gate(generated, failed_hard_gate_role)
                     ELSE generated
       IN  /\ final_report' = report
           /\ outcome' =
                 [kind |-> "returned",
                  result |->
                     [role_evaluations |-> role_evaluations,
                      final_effectiveness_index |-> fei,
                      final_report |-> report,
                      analysis_appendix |->
                          generate_analysis_appendix(role_evaluations,
                                                     contextual_baseline, fei),
                      hard_gate_failed |-> hard_gate_failed,
                      failed_hard_gate_role |-> failed_hard_gate_role]]
    /\ UNCHANGED <<sink_vars, parse_vars, endpoint_vars, backend_vars, stream_vars, overtaken, input_data, contextual_baseline, task, responses, evaluation,
                   first_exception, role_evaluations, hard_gate_failed,
                   failed_hard_gate_role, fei>>

Next ==
    \/ LockBaseline
    \/ DispatchRoles
    \/ \E r \in RoleIds : StartRole(r)
    \/ \E r \in RoleIds : QueryResolves(r)
    \/ GatherReturns
    \/ GatherRaises
    \/ CalculateIndex
    \/ GenerateOutputs

Spec == Init /\ [][Next]_vars

----------------------------------------------------------------------------
(* The run under fair scheduling: the event loop runs a coroutine that is
   ready to run (the coordinator, or a task up to its await), and every
   query_func call that is awaited eventually resolves *)

EventLoopStep ==
    \/ LockBaseline
    \/ DispatchRoles
    \/ \E r \in RoleIds : StartRole(r)
    \/ GatherReturns
    \/ GatherRaises
    \/ CalculateIndex
    \/ GenerateOutputs

Fairness ==
    /\ WF_vars(EventLoopStep)
    /\ WF_vars(\E r \in RoleIds : QueryResolves(r))

\* A run that reports to a well-behaved progress sink
InitFair ==
    /\ input_data \in InputSamples
    /\ phase = "Initialized"
    /\ contextual_baseline = NoBaseline
    /\ task = [r \in RoleIds |-> "none"]
    /\ responses = [r \in RoleIds |-> NotYet]
    /\ evaluation = [r \in RoleIds |-> NoEvaluation]
    /\ first_exception = NoException
    /\ overtaken = FALSE
    /\ role_evaluations = <<>>
    /\ hard_gate_failed = FALSE
    /\ failed_hard_gate_role = "None"
    /\ fei = 0
    /\ final_report = NoReport
    /\ outcome = Pending
    /\ reply_text = <<>>
    /\ embedded = NoObject
    /\ parse_result = NotParsed
    /\ sink = RecordingSink
    /\ events = NoEvents
    /\ late_queued = FALSE
    /\ request = NoRequest
    /\ backend = AnyQueryFunc
    /\ answers = [r \in RoleIds |-> NotAsked]
    /\ queue = <<>>
    /\ role_results = 0
    /\ http = NotAnswered

SpecFair == InitFair /\ [][Next]_vars /\ Fairness

----------------------------------------------------------------------------

(* The run with a progress sink attached, well-behaved or raising *)

InitSink ==
    /\ input_data \in InputSamples
    /\ phase = "Initialized"
    /\ contextual_baseline = NoBaseline
    /\ task = [r \in RoleIds |-> "none"]
    /\ responses = [r \in RoleIds |-> NotYet]
    /\ evaluation = [r \in RoleIds |-> NoEvaluation]
    /\ first_exception = NoException
    /\ overtaken = FALSE
    /\ role_evaluations = <<>>
    /\ hard_gate_failed = FALSE
    /\ failed_hard_gate_role = "None"
    /\ fei = 0
    /\ final_report = NoReport
    /\ outcome = Pending
    /\ reply_text = <<>>
    /\ embedded = NoObject
    /\ parse_result = NotParsed
    /\ sink \in {RecordingSink} \cup RaisingSinks
    /\ events = NoEvents
    /\ late_queued = FALSE
    /\ request = NoRequest
    /\ backend = AnyQueryFunc
    /\ answers = [r \in RoleIds |-> NotAsked]
    /\ queue = <<>>
    /\ role_results = 0
    /\ http = NotAnswered

SpecSink == InitSink /\ [][Next]_vars

----------------------------------------------------------------------------
(* The run from the point where all eight queries have resolved with a
   verdict, for every combination of the verdicts of ScoredReplies *)

InitAllResolved ==
    /\ input_data \in InputSamples
    /\ phase = "RolesDispatched"
    /\ contextual_baseline = build_contextual_baseline(input_data)
    /\ task = [r \in RoleIds |-> "returned"]
    /\ responses \in [RoleIds -> ScoredReplies]
    /\ evaluation = [r \in RoleIds |-> RoleOutcome[r][responses[r]].value]
    /\ first_exception = NoException
    /\ overtaken = FALSE
    /\ role_evaluations = <<>>
    /\ hard_gate_failed = FALSE
    /\ failed_hard_gate_role = "None"
    /\ fei = 0
    /\ final_report = NoReport
    /\ outcome = Pending
    /\ reply_text = <<>>
    /\ embedded = NoObject
    /\ parse_result = NotParsed
    /\ sink = NoSink
    /\ events = NoEvents
    /\ late_queued = FALSE
    /\ request = NoRequest
    /\ backend = AnyQueryFunc
    /\ answers = [r \in RoleIds |-> NotAsked]
    /\ queue = <<>>
    /\ role_results = 0
    /\ http = NotAnswered

NextAggregate ==
    \/ GatherReturns
    \/ CalculateIndex
    \/ GenerateOutputs

SpecAggregate == InitAllResolved /\ [][NextAggregate]_vars

----------------------------------------------------------------------------
(* parse_evaluation_response on its own, over a family of reply texts *)

\* The members of a JSON object, as <<key, value>> pairs with distinct keys,
\* and the fields they stand for
Fields(pairs) ==
    [k \in {pairs[i][1] : i \in 1..Len(pairs)} |->
        pairs[CHOOSE i \in 1..Len(pairs) : pairs[i][1] = k][2]]

NoMark == [t |-> "none"]

\* The object as text; with a mark, the last member's string value has the
\* mark in it
Render(pairs, mark) ==
    LET n == Len(pairs)
    IN  Object([i \in 1..n - 1 |-> Member(pairs[i][1], pairs[i][2])]
               \o (IF mark = NoMark
                   THEN <<Member(pairs[n][1], pairs[n][2])>>
                   ELSE MemberWith(pairs[n][1], pairs[n][2], mark)))

VerdictSamples ==
    { << <<"result", "PASS">>, <<"score", 80>>, <<"confidence", 9>>,
         <<"justification", ReplyJustification>> >>,
      << <<"result", "FAIL">>, <<"justification", ReplyJustification>> >> }

\* What a string value may have in it
Marks == {NoMark, FENCE, LBRACE, RBRACE}

\* Prose before and after: none, plain, with braces in it, with a fence
\* marker in it
Prologues ==
    { <<>>, <<PROSE, WS>>, <<PROSE, LBRACE, PROSE, RBRACE, WS>>,
      <<PROSE, FENCE, PROSE, WS>> }

Epilogues ==
    { <<>>, <<WS, PROSE>>, <<WS, PROSE, LBRACE, PROSE, RBRACE>>,
      <<WS, PROSE, FENCE, PROSE>> }

Openers == { [form |-> "tagged", text |-> <<FENCE, TAG, WS>>],
             [form |-> "untagged", text |-> <<FENCE, WS>>] }

TheObject(form, pairs, mark, before, after) ==
    [form |-> form, fields |-> Fields(pairs), mark |-> mark,
     before |-> before, after |-> after]

\* A verdict object in a fenced block, prose around it
FencedTexts ==
    { [text |-> before \o open.text \o Render(pairs, mark) \o <<WS, FENCE>> \o after,
       object |-> TheObject(open.form, pairs, mark, before, after)] :
      before \in Prologues, open \in Openers, pairs \in VerdictSamples,
      mark \in Marks, after \in Epilogues }

\* A verdict object with prose around it and no fence
BareTexts ==
    { [text |-> before \o Render(pairs, mark) \o after,
       object |-> TheObject("bare", pairs, mark, before, after)] :
      before \in Prologues, pairs \in VerdictSamples,
      mark \in Marks, after \in Epilogues }

Alphabet ==
    {PROSE, WS, FENCE, TAG, LBRACE, RBRACE, NUMBER, Member("result", "FAIL")}

\* Every text of up to this many tokens is tried
MaxTextLen == 3

ShortTexts ==
    { [text |-> t, object |-> NoObject] :
      t \in UNION {[1..n -> Alphabet] : n \in 0..MaxTextLen} }

Texts == FencedTexts \cup BareTexts \cup ShortTexts

InitParse ==
    /\ input_data \in InputSamples
    /\ phase = "Initialized"
    /\ contextual_baseline = NoBaseline
    /\ task = [r \in RoleIds |-> "none"]
    /\ responses = [r \in RoleIds |-> NotYet]
    /\ evaluation = [r \in RoleIds |-> NoEvaluation]
    /\ first_exception = NoException
    /\ overtaken = FALSE
    /\ role_evaluations = <<>>
    /\ hard_gate_failed = FALSE
    /\ failed_hard_gate_role = "None"
    /\ fei = 0
    /\ final_report = NoReport
    /\ outcome = Pending
    /\ \E t \in Texts : reply_text = t.text /\ embedded = t.object
    /\ parse_result = NotParsed
    /\ sink = NoSink
    /\ events = NoEvents
    /\ late_queued = FALSE
    /\ request = NoRequest
    /\ backend = AnyQueryFunc
    /\ answers = [r \in RoleIds |-> NotAsked]
    /\ queue = <<>>
    /\ role_results = 0
    /\ http = NotAnswered

\* data = parse_evaluation_response(content)
Parse ==
    /\ parse_result = NotParsed
    /\ parse_result' = parse_evaluation_response(reply_text)
    /\ UNCHANGED <<sink_vars, endpoint_vars, backend_vars, stream_vars, reply_text, embedded, overtaken, input_data, phase,
                   contextual_baseline, task, responses, evaluation,
                   first_exception, role_evaluations, hard_gate_failed,
                   failed_hard_gate_role, fei, final_report, outcome>>

NextParse == Parse

SpecParse == InitParse /\ [][NextParse]_vars

----------------------------------------------------------------------------
(* The evaluate endpoints of main.py in front of the run.  /api/creative/evaluate
   and /api/creative/evaluate/stream share the validation and the conversion
   of the request body; they differ in how the run is awaited and answered. *)

\* A value of the body.  type: "str", "null" for JSON null, or "absent" for
\* a key the dict does not have; a str is known by len(s) and len(s.strip())
Text(len, stripped) == [type |-> "str", len |-> len, stripped |-> stripped]

Null == [type |-> "null", len |-> 0, stripped |-> 0]

Absent == [type |-> "absent", len |-> 0, stripped |-> 0]

\* The mark of a key that a Dict[str, str] does not have
NoKey == "(no key)"

\* validation.py: the thresholds
MIN_CREATIVE_DESCRIPTION == 100

MIN_TARGET_AUDIENCE == 50

\* models.py: EvaluationInput.target_audience, min_length
TargetAudienceMinLength == 50

\* models.py: the enums
BrandStatus ==
    {"Market Leader", "Strong Challenger", "Emerging / Growth Brand",
     "New or Low-Awareness Brand"}

MarketMaturity == {"Mature", "Growing", "Emerging"}

ClutterLevel == {"Low", "Medium", "High"}

PurchaseFrequency == {"High", "Medium", "Low"}

DecisionInvolvement == {"Low", "Medium", "High"}

CampaignObjective == {"Long-term brand growth", "Short-term activation", "Mixed"}

CompetitiveNoise == {"Low", "Medium", "High"}

market_fields ==
    <<"market_maturity", "category_clutter", "purchase_frequency",
      "decision_involvement">>

\* bool(d) of a dict: it has a key
DictTruthy(d) == \E k \in DOMAIN d : d[k].type # "absent"

\* the same of a Dict[str, str]
StrDictTruthy(d) == \E k \in DOMAIN d : d[k] # NoKey

\* d.get(key) is not None
NotNone(value) == value.type \notin {"absent", "null"}

\* The items of seq that pass the test, in order
Keep(seq, passing) ==
    LET Ok(x) == x \in passing IN SelectSeq(seq, Ok)

Drop(seq, dropped) ==
    LET Ok(x) == x \notin dropped IN SelectSeq(seq, Ok)

\* the loop over required_fields: not data[field]
required_missing(data) ==
    LET falsy ==
            [brand_name |-> data.brand_name = "",
             category |-> data.category = "",
             campaign_objective |-> data.campaign_objective = "",
             primary_channels |-> data.primary_channels = <<>>,
             target_audience |-> data.target_audience.len = 0,
             brand_status |-> data.brand_status = "",
             market_context |-> ~StrDictTruthy(data.market_context)]
        required_fields ==
            <<"brand_name", "category", "campaign_objective", "primary_channels",
              "target_audience", "brand_status", "market_context">>
        Missing(field) == falsy[field]
    IN  SelectSeq(required_fields, Missing)

AttributeError == Error("AttributeError", FALSE, 47)

\* validate_input(data).  The warnings are kept by their kind; a description
\* that is not a str makes description.strip() raise.
validate_input(data) ==
    LET creative_data == data.creative
        description == IF creative_data.description = Absent THEN Text(0, 0)
                       ELSE creative_data.description
        has_file == NotNone(creative_data.file_path)
        total_len == description.stripped
        has_sufficient_content == total_len >= MIN_CREATIVE_DESCRIPTION
        short == DictTruthy(creative_data) /\ ~has_file /\ ~has_sufficient_content
        audience == data.target_audience
        brief == audience.len > 0 /\ audience.stripped < MIN_TARGET_AUDIENCE
        market == data.market_context
        Unfilled(field) == market[field] \in {NoKey, ""}
        missing ==
            required_missing(data)
            \o (IF ~DictTruthy(creative_data) \/ (short /\ total_len = 0)
                THEN <<"creative">> ELSE <<>>)
            \o (IF data.primary_channels = <<>> THEN <<"primary_channels">> ELSE <<>>)
        incomplete ==
            (IF short /\ total_len > 0 THEN <<"creative">> ELSE <<>>)
            \o (IF brief THEN <<"target_audience">> ELSE <<>>)
            \o (IF StrDictTruthy(market)
                THEN [i \in 1..Len(SelectSeq(market_fields, Unfilled)) |->
                        <<"market_context", SelectSeq(market_fields, Unfilled)[i]>>]
                ELSE <<>>)
        warnings ==
            (IF short /\ total_len > 0 THEN <<"too short">> ELSE <<>>)
            \o (IF brief THEN <<"brief">> ELSE <<>>)
            \o (IF ~data.competitive_context.present THEN <<"no competitive">> ELSE <<>>)
            \o (IF ~data.local_factors.present THEN <<"no local">> ELSE <<>>)
        inferrable ==
            {"brand_name", "category", "target_audience", "campaign_objective",
             "brand_status"}
        market_details == {<<"market_context", market_fields[i]>> : i \in 1..Len(market_fields)}
        still_missing == IF has_file THEN Drop(missing, inferrable) ELSE missing
        still_incomplete == IF has_file THEN Drop(incomplete, market_details)
                            ELSE incomplete
        softened ==
            IF has_file
            THEN [i \in 1..Len(Keep(missing, inferrable)) |-> "inferred"]
                 \o [i \in 1..Len(Keep(incomplete, market_details)) |-> "defaulted"]
            ELSE <<>>
        is_valid == still_missing = <<>> /\ still_incomplete = <<>>
        too_short == \E i \in 1..Len(warnings) : warnings[i] = "too short"
    IN  IF DictTruthy(creative_data) /\ ~(description.type = "str")
        THEN Raised(AttributeError)
        ELSE Returned([valid |-> is_valid,
                       missing_fields |-> still_missing,
                       incomplete_fields |-> still_incomplete,
                       warnings |-> warnings \o softened,
                       ready_to_evaluate |->
                           (is_valid /\ ~too_short)
                           \/ (has_file /\ still_missing = <<>>)])

\* What the try block of the endpoints raises
ConversionError == Error("ValidationError", FALSE, 60)

\* The conversion of the body into an EvaluationInput: the enum lookups raise
\* KeyError or ValueError, the models raise ValidationError
to_evaluation_input(data) ==
    LET creative == data.creative
        market == data.market_context
        cc == data.competitive_context
        lf == data.local_factors
        creative_ok ==
            /\ creative.description.type \in {"absent", "str"}
            /\ creative.file_path.type \in {"absent", "null", "str"}
        market_ok ==
            /\ market.market_maturity \in MarketMaturity
            /\ market.category_clutter \in ClutterLevel
            /\ market.purchase_frequency \in PurchaseFrequency
            /\ market.decision_involvement \in DecisionInvolvement
        competitive_ok == cc.present => cc.competitive_noise \in CompetitiveNoise
        local_ok == lf.present => lf.cultural_notes.type \in {"absent", "str"}
        input_ok ==
            /\ data.brand_name # ""
            /\ data.category # ""
            /\ data.campaign_objective \in CampaignObjective
            /\ Len(data.primary_channels) >= 1
            /\ data.target_audience.len >= TargetAudienceMinLength
            /\ data.brand_status \in BrandStatus
    IN  IF creative_ok /\ market_ok /\ competitive_ok /\ local_ok /\ input_ok
        THEN Returned([brand_status |-> data.brand_status,
                       market_maturity |-> market.market_maturity,
                       category_clutter |-> market.category_clutter,
                       purchase_frequency |-> market.purchase_frequency,
                       decision_involvement |-> market.decision_involvement,
                       campaign_objective |-> data.campaign_objective,
                       competitive_context |->
                           IF cc.present THEN cc.competitive_noise
                           ELSE NoCompetitiveContext])
        ELSE Raised(ConversionError)

\* raise HTTPException(status_code=..., detail=...)
HTTPException(status_code, detail) ==
    [kind |-> "HTTPException", status_code |-> status_code, detail |-> detail]

\* An exception no handler of the endpoint caught: the server answers 500
ServerError(error) ==
    [kind |-> "unhandled", status_code |-> 500, detail |-> error]

\* return result.model_dump()
JsonResponse(result) == [kind |-> "json", status_code |-> 200, detail |-> result]

\* The StreamingResponse: the events event_generator yields around the
\* relayed sink events
StreamingResponse(closing) ==
    [kind |-> "stream", status_code |-> 200, detail |-> <<"start">> \o closing]

\* The values tried for the fields of a body
BodySamples ==
    [brand_name : {"", "Acme"},
     category : {"", "Snacks"},
     campaign_objective : {"", "Mixed", "Awareness"},
     primary_channels : {<<>>, <<"TV">>},
     target_audience : {Text(0, 0), Text(20, 20), Text(60, 20), Text(60, 60)},
     brand_status : {"", "Market Leader"},
     market_context :
        {[market_maturity |-> NoKey, category_clutter |-> NoKey,
          purchase_frequency |-> NoKey, decision_involvement |-> NoKey],
         [market_maturity |-> "Mature", category_clutter |-> "High",
          purchase_frequency |-> "High", decision_involvement |-> NoKey],
         [market_maturity |-> "Mature", category_clutter |-> "Huge",
          purchase_frequency |-> "High", decision_involvement |-> "Low"],
         [market_maturity |-> "Mature", category_clutter |-> "High",
          purchase_frequency |-> "High", decision_involvement |-> "Low"]},
     creative :
        {[description |-> Absent, file_path |-> Absent],
         [description |-> Text(20, 20), file_path |-> Absent],
         [description |-> Text(120, 120), file_path |-> Absent],
         [description |-> Absent, file_path |-> Text(8, 8)],
         [description |-> Null, file_path |-> Text(8, 8)],
         [description |-> Null, file_path |-> Absent]},
     competitive_context :
        {[present |-> FALSE, competitive_noise |-> NoKey],
         [present |-> TRUE, competitive_noise |-> "High"],
         [present |-> TRUE, competitive_noise |-> "Loud"]},
     local_factors :
        {[present |-> FALSE, cultural_notes |-> Absent],
         [present |-> TRUE, cultural_notes |-> Text(30, 30)],
         [present |-> TRUE, cultural_notes |-> Null]}]

\* A body that passes validation and conversion
CompleteBody ==
    [brand_name |-> "Acme", category |-> "Snacks", campaign_objective |-> "Mixed",
     primary_channels |-> <<"TV">>, target_audience |-> Text(60, 60),
     brand_status |-> "Market Leader",
     market_context |->
         [market_maturity |-> "Mature", category_clutter |-> "High",
          purchase_frequency |-> "High", decision_involvement |-> "Low"],
     creative |-> [description |-> Text(120, 120), file_path |-> Absent],
     competitive_context |-> [present |-> FALSE, competitive_noise |-> NoKey],
     local_factors |-> [present |-> FALSE, cultural_notes |-> Absent]]

\* At most this many fields of a body differ from CompleteBody
MaxChangedFields == 2

ChangedFields(body) == {f \in DOMAIN CompleteBody : body[f] # CompleteBody[f]}

Bodies == {body \in BodySamples : Cardinality(ChangedFields(body)) <= MaxChangedFields}

Endpoints == {"evaluate", "stream"}

NoInput == [brand_status |-> "", market_maturity |-> "", category_clutter |-> "",
            purchase_frequency |-> "", decision_involvement |-> "",
            campaign_objective |-> "", competitive_context |-> NoCompetitiveContext]

InitEndpoint ==
    /\ request \in [endpoint : Endpoints, data : Bodies]
    /\ http = NotAnswered
    /\ backend = AnyQueryFunc
    /\ answers = [r \in RoleIds |-> NotAsked]
    /\ queue = <<>>
    /\ role_results = 0
    /\ input_data = NoInput
    /\ phase = "Received"
    /\ contextual_baseline = NoBaseline
    /\ task = [r \in RoleIds |-> "none"]
    /\ responses = [r \in RoleIds |-> NotYet]
    /\ evaluation = [r \in RoleIds |-> NoEvaluation]
    /\ first_exception = NoException
    /\ overtaken = FALSE
    /\ role_evaluations = <<>>
    /\ hard_gate_failed = FALSE
    /\ failed_hard_gate_role = "None"
    /\ fei = 0
    /\ final_report = NoReport
    /\ outcome = Pending
    /\ reply_text = <<>>
    /\ embedded = NoObject
    /\ parse_result = NotParsed
    /\ sink = NoSink
    /\ events = NoEvents
    /\ late_queued = FALSE

\* evaluate_creative and evaluate_creative_stream up to the call of
\* run_creative_evaluation: validate_input, then the conversion; the streaming
\* endpoint passes its on_role_complete, which queues what it is called with
ReceiveRequest ==
    /\ phase = "Received"
    /\ LET data == request.data
           validation == validate_input(data)
           converted == to_evaluation_input(data)
       IN  IF validation.raised
           THEN /\ http' = ServerError(validation.error)
                /\ phase' = "Answered"
                /\ UNCHANGED <<input_data, sink>>
           ELSE IF ~validation.value.valid
           THEN /\ http' = HTTPException(400,
                              [message |-> "Input validation failed",
                               missing_fields |-> validation.value.missing_fields,
                               incomplete_fields |-> validation.value.incomplete_fields])
                /\ phase' = "Answered"
                /\ UNCHANGED <<input_data, sink>>
           ELSE IF converted.raised
           THEN /\ http' = HTTPException(400, [message |-> "Invalid input format",
                                               error |-> converted.error])
                /\ phase' = "Answered"
                /\ UNCHANGED <<input_data, sink>>
           ELSE /\ input_data' = converted.value
                /\ sink' = IF request.endpoint = "stream" THEN RecordingSink ELSE NoSink
                /\ phase' = "Initialized"
                /\ UNCHANGED http
    /\ UNCHANGED <<parse_vars, events, late_queued, request, backend_vars, stream_vars, contextual_baseline,
                   task, responses, evaluation, first_exception, overtaken,
                   role_evaluations, hard_gate_failed, failed_hard_gate_role,
                   fei, final_report, outcome>>

\* The run is over.  evaluate_creative returns the result or turns the
\* exception into a 500; event_generator yields hard_gate_failed and complete,
\* or an error event.
Respond ==
    /\ request # NoRequest
    /\ http = NotAnswered
    /\ outcome # Pending
    /\ phase' = "Answered"
    /\ http' =
          IF request.endpoint = "evaluate"
          THEN IF outcome.kind = "returned"
               THEN JsonResponse(outcome.result)
               ELSE HTTPException(500, [message |-> "Evaluation failed",
                                        error |-> outcome.error])
          ELSE IF outcome.kind = "returned"
               THEN StreamingResponse(
                        (IF outcome.result.hard_gate_failed
                         THEN <<"hard_gate_failed">> ELSE <<>>) \o <<"complete">>)
               ELSE StreamingResponse(<<"error">>)
    /\ UNCHANGED <<parse_vars, sink_vars, request, backend_vars, stream_vars, input_data, contextual_baseline,
                   task, responses, evaluation, first_exception, overtaken,
                   role_evaluations, hard_gate_failed, failed_hard_gate_role,
                   fei, final_report, outcome>>

NextEndpoint ==
    \/ ReceiveRequest
    \/ Next
    \/ Respond

SpecEndpoint == InitEndpoint /\ [][NextEndpoint]_vars

----------------------------------------------------------------------------
(* The model-query backend: query_llm of llm.py over query_gemini of gemini.py
   and query_model of openrouter.py, under the API keys of config.py *)

\* os.getenv gives None for a variable that is not set
Unset == "(unset)"

\* if KEY: neither None nor the empty string
KeySet(key) == key # Unset /\ key # ""

\* USE_GEMINI = GOOGLE_API_KEY is not None
USE_GEMINI(config) == config.GOOGLE_API_KEY # Unset

Configs == [GOOGLE_API_KEY : {Unset, "", "key"}, OPENROUTER_API_KEY : {Unset, "key"}]

\* What client.post gives query_gemini: a response with a status code and a
\* decoded body, or an exception
GeminiResponse(status_code, data) ==
    [kind |-> "response", status_code |-> status_code, data |-> data]

GeminiTimeout == [kind |-> "timeout", status_code |-> 0, data |-> <<>>]

GeminiRequestError == [kind |-> "error", status_code |-> 0, data |-> <<>>]

\* Bodies: candidates[0].content.parts[0].text, no parts, no candidates
WithText(text) == [candidates |-> 1, parts |-> 1, text |-> text]

NoParts == [candidates |-> 1, parts |-> 0, text |-> <<>>]

NoCandidates == [candidates |-> 0, parts |-> 0, text |-> <<>>]

\* The body of an error answer, which query_gemini does not decode
ErrorBody == [candidates |-> 0, parts |-> 0, text |-> <<PROSE>>]

\* HTTP 429 Too Many Requests
GeminiRateLimited == GeminiResponse(429, ErrorBody)

GeminiAnswers(r) ==
    { GeminiResponse(200, WithText(NominalReply[r].content)),
      GeminiResponse(200, NoParts),
      GeminiResponse(200, NoCandidates),
      GeminiRateLimited,
      GeminiResponse(500, ErrorBody),
      GeminiTimeout,
      GeminiRequestError }

\* What query_model may give; its source is not in this tree
OpenRouterOutcomes(r) ==
    { NominalReply[r], NoResponse, Raise(RateLimitError), Raise(QueryError) }

\* query_gemini: {"content": text} or None; both except clauses return None
query_gemini(config, answer) ==
    IF ~KeySet(config.GOOGLE_API_KEY) THEN NoResponse
    ELSE IF answer.kind # "response" THEN NoResponse
    ELSE IF answer.status_code # 200 THEN NoResponse
    ELSE IF answer.data.candidates = 0 THEN NoResponse
    ELSE IF answer.data.parts = 0 THEN NoResponse
    ELSE Reply(answer.data.text)

\* query_llm, a the answers of the providers it calls
query_llm(config, a) ==
    IF USE_GEMINI(config)
    THEN LET result == query_gemini(config, a.gemini)
             fallback == IF KeySet(config.OPENROUTER_API_KEY)
                         THEN a.openrouter ELSE NoResponse
         IN  IF result.kind = "raise"
             THEN (IF result.error.has_429 /\ KeySet(config.OPENROUTER_API_KEY)
                   THEN fallback ELSE result)
             ELSE IF result.kind = "reply" THEN result
             ELSE fallback
    ELSE IF a.openrouter.kind = "raise" /\ ~a.openrouter.error.has_429
    THEN NoResponse
    ELSE a.openrouter

\* The HTTP request is made once the key is there
calls_gemini(config) == USE_GEMINI(config) /\ KeySet(config.GOOGLE_API_KEY)

calls_openrouter(config, gemini) ==
    IF USE_GEMINI(config)
    THEN query_gemini(config, gemini).kind # "reply" /\ KeySet(config.OPENROUTER_API_KEY)
    ELSE TRUE

\* The answers one call of query_llm for role r may be given
ProviderAnswers(config, r) ==
    { a \in [gemini : GeminiAnswers(r) \cup {NotCalled},
             openrouter : OpenRouterOutcomes(r) \cup {NotCalled}] :
        /\ (a.gemini # NotCalled) = calls_gemini(config)
        /\ (a.openrouter # NotCalled) = calls_openrouter(config, a.gemini) }

\* A provider that was called gave something other than its nominal answer
ProviderFailed(r, a) ==
    \/ a.gemini \notin {NotCalled, GeminiResponse(200, WithText(NominalReply[r].content))}
    \/ a.openrouter \notin {NotCalled, NominalReply[r]}

\* At most this many roles of a run see a provider fail
MaxProviderFailures == 1

InitBackend ==
    /\ input_data \in InputSamples
    /\ phase = "Initialized"
    /\ contextual_baseline = NoBaseline
    /\ task = [r \in RoleIds |-> "none"]
    /\ responses = [r \in RoleIds |-> NotYet]
    /\ evaluation = [r \in RoleIds |-> NoEvaluation]
    /\ first_exception = NoException
    /\ overtaken = FALSE
    /\ role_evaluations = <<>>
    /\ hard_gate_failed = FALSE
    /\ failed_hard_gate_role = "None"
    /\ fei = 0
    /\ final_report = NoReport
    /\ outcome = Pending
    /\ reply_text = <<>>
    /\ embedded = NoObject
    /\ parse_result = NotParsed
    /\ sink = NoSink
    /\ events = NoEvents
    /\ late_queued = FALSE
    /\ request = NoRequest
    /\ http = NotAnswered
    /\ backend \in Configs
    /\ answers = [r \in RoleIds |-> NotAsked]
    /\ queue = <<>>
    /\ role_results = 0

\* response = await query_func(messages) with query_llm as query_func: the
\* providers answer, query_llm returns or raises, and the task runs to its end
LlmResolves(r) ==
    /\ task[r] = "querying"
    /\ \A q \in RoleIds : task[q] # "created"
    /\ \E a \in ProviderAnswers(backend, r) :
       \E resp \in {query_llm(backend, a)} :
        /\ ProviderFailed(r, a) =>
              Cardinality({q \in RoleIds : ProviderFailed(q, answers[q])})
                  < MaxProviderFailures
        /\ answers' = [answers EXCEPT ![r] = a]
        /\ TaskResumes(r, resp)
    /\ overtaken' = (overtaken \/ \E q \in RoleIds : q < r /\ task[q] = "querying")
    /\ UNCHANGED <<sink, late_queued, parse_vars, endpoint_vars, backend, input_data, phase,
                   contextual_baseline, role_evaluations, hard_gate_failed,
                   failed_hard_gate_role, fei, final_report, outcome>>

NextBackend ==
    \/ EventLoopStep
    \/ \E r \in RoleIds : LlmResolves(r)

SpecBackend == InitBackend /\ [][NextBackend]_vars

----------------------------------------------------------------------------

(* event_generator of /api/creative/evaluate/stream, yield by yield: it starts
   the run as a task, yields "start", relays what on_role_complete queued
   while the task runs or the queue holds something, and closes with the
   result or the error *)

\* The StreamingResponse with the events yielded so far
Stream(sent) == [kind |-> "stream", status_code |-> 200, detail |-> sent]

\* At most this many heartbeat events in one stream
MaxHeartbeats == 1

Heartbeats == Cardinality({i \in 1..Len(http.detail) : http.detail[i].type = "heartbeat"})

\* The request has passed validate_input and the conversion
InitStream ==
    /\ request = [endpoint |-> "stream", data |-> CompleteBody]
    /\ http = NotAnswered
    /\ backend = AnyQueryFunc
    /\ answers = [r \in RoleIds |-> NotAsked]
    /\ queue = <<>>
    /\ role_results = 0
    /\ input_data = to_evaluation_input(CompleteBody).value
    /\ phase = "Validated"
    /\ contextual_baseline = NoBaseline
    /\ task = [r \in RoleIds |-> "none"]
    /\ responses = [r \in RoleIds |-> NotYet]
    /\ evaluation = [r \in RoleIds |-> NoEvaluation]
    /\ first_exception = NoException
    /\ overtaken = FALSE
    /\ role_evaluations = <<>>
    /\ hard_gate_failed = FALSE
    /\ failed_hard_gate_role = "None"
    /\ fei = 0
    /\ final_report = NoReport
    /\ outcome = Pending
    /\ reply_text = <<>>
    /\ embedded = NoObject
    /\ parse_result = NotParsed
    /\ sink = QueueSink
    /\ events = NoEvents
    /\ late_queued = FALSE

\* eval_task = asyncio.create_task(run_creative_evaluation(...)), then the
\* first yield
StreamStart ==
    /\ phase = "Validated"
    /\ phase' = "Initialized"
    /\ http' = Stream(<<SSE("start", "", 0)>>)
    /\ UNCHANGED <<parse_vars, sink_vars, request, backend_vars, stream_vars, input_data,
                   contextual_baseline, task, responses, evaluation, first_exception,
                   overtaken, role_evaluations, hard_gate_failed,
                   failed_hard_gate_role, fei, final_report, outcome>>

\* event = await asyncio.wait_for(queue.get(), timeout=1.0); yield it
Relay ==
    /\ http.kind = "stream"
    /\ phase # "Answered"
    /\ queue # <<>>
    /\ http' = Stream(http.detail \o <<Head(queue)>>)
    /\ queue' = Tail(queue)
    /\ UNCHANGED <<parse_vars, sink_vars, request, backend_vars, role_results, input_data,
                   phase, contextual_baseline, task, responses, evaluation,
                   first_exception, overtaken, role_evaluations, hard_gate_failed,
                   failed_hard_gate_role, fei, final_report, outcome>>

\* asyncio.TimeoutError with five seconds gone since the last heartbeat: time
\* passes while every task awaits its query and nothing is queued
Heartbeat ==
    /\ http.kind = "stream"
    /\ phase # "Answered"
    /\ queue = <<>>
    /\ \E r \in RoleIds : task[r] = "querying"
    /\ \A r \in RoleIds : task[r] # "created"
    /\ Heartbeats < MaxHeartbeats
    /\ http' = Stream(http.detail \o <<SSE("heartbeat", "", role_results)>>)
    /\ UNCHANGED <<parse_vars, sink_vars, request, backend_vars, stream_vars, input_data,
                   phase, contextual_baseline, task, responses, evaluation,
                   first_exception, overtaken, role_evaluations, hard_gate_failed,
                   failed_hard_gate_role, fei, final_report, outcome>>

\* What follows the loop: result = await eval_task, then hard_gate_failed and
\* complete; or the except clause's error
closing_events(run) ==
    IF run.kind = "returned"
    THEN (IF run.result.hard_gate_failed
          THEN <<SSE("hard_gate_failed", "", 0)>> ELSE <<>>)
         \o <<SSE("complete", "", 0)>>
    ELSE <<SSE("error", "", 0)>>

\* A variant of StreamClose's guard: while not eval_task.done()
loop_ends_with_task == outcome # Pending

\* The loop ends: not (not eval_task.done() or not queue.empty())
loop_ends == outcome # Pending /\ queue = <<>>

StreamClose ==
    /\ http.kind = "stream"
    /\ phase # "Answered"
    /\ loop_ends
    /\ http' = Stream(http.detail \o closing_events(outcome))
    /\ phase' = "Answered"
    /\ UNCHANGED <<parse_vars, sink_vars, request, backend_vars, stream_vars, input_data,
                   contextual_baseline, task, responses, evaluation, first_exception,
                   overtaken, role_evaluations, hard_gate_failed,
                   failed_hard_gate_role, fei, final_report, outcome>>

NextStream ==
    \/ StreamStart
    \/ Next
    \/ Relay
    \/ Heartbeat
    \/ StreamClose

SpecStream == InitStream /\ [][NextStream]_vars

----------------------------------------------------------------------------

(* calculate_fei over verdicts at and next to full marks: the run from the
   point where all eight queries have resolved with one of them *)

\* Verdicts next to full marks for a role that adds to the total: full marks,
\* a tenth of a point less, and a FAIL
NearFullReplies ==
    { Reply(VerdictObject("PASS", 100, 10)),
      Reply(VerdictObject("PASS", 99, 10)),
      Reply(VerdictObject("FAIL", 100, 10)) }

\* Verdicts of the pattern breaker: a large penalty, small ones, and none
PenaltyReplies ==
    { Reply(VerdictObject("PASS", 100, 10)),
      Reply(VerdictObject("PASS", 1, 1)),
      Reply(VerdictObject("PASS", 1, 8)),
      Reply(VerdictObject("PASS", 1, 9)),
      Reply(VerdictObject("PASS", 0, 10)),
      Reply(VerdictObject("FAIL", 100, 10)) }

IndexReplies == [r \in RoleIds |->
                    IF r = PatternBreakerId THEN PenaltyReplies ELSE NearFullReplies]

\* evaluate_with_role for every role and every verdict of IndexReplies
IndexOutcome ==
    [r \in RoleIds |->
        [resp \in IndexReplies[r] |-> evaluate_with_role(ROLES[r], resp)]]

InitIndex ==
    /\ input_data \in InputSamples
    /\ phase = "RolesDispatched"
    /\ contextual_baseline = build_contextual_baseline(input_data)
    /\ task = [r \in RoleIds |-> "returned"]
    /\ responses \in {f \in [RoleIds -> NearFullReplies \cup PenaltyReplies] :
                         \A r \in RoleIds : f[r] \in IndexReplies[r]}
    /\ evaluation = [r \in RoleIds |-> IndexOutcome[r][responses[r]].value]
    /\ first_exception = NoException
    /\ overtaken = FALSE
    /\ role_evaluations = <<>>
    /\ hard_gate_failed = FALSE
    /\ failed_hard_gate_role = "None"
    /\ fei = 0
    /\ final_report = NoReport
    /\ outcome = Pending
    /\ reply_text = <<>>
    /\ embedded = NoObject
    /\ parse_result = NotParsed
    /\ sink = NoSink
    /\ events = NoEvents
    /\ late_queued = FALSE
    /\ request = NoRequest
    /\ backend = AnyQueryFunc
    /\ answers = [r \in RoleIds |-> NotAsked]
    /\ queue = <<>>
    /\ role_results = 0
    /\ http = NotAnswered

SpecIndex == InitIndex /\ [][NextAggregate]_vars

----------------------------------------------------------------------------

(* Properties of the run, under Spec unless stated *)

\* C1: every run that returns a result returns one RoleEvaluation per
\* registered role, eight of them, with role_id 1..8 in ascending order, each
\* the one its own role's task produced, whatever the order in which the
\* queries completed.
C1_OnePerRoleInIdOrder ==
    outcome.kind = "returned" =>
        /\ Len(outcome.result.role_evaluations) = NumRoles
        /\ \A i \in 1..NumRoles :
              /\ outcome.result.role_evaluations[i].role_id = i
              /\ outcome.result.role_evaluations[i] = evaluation[i]

\* A returned result of a run in which a task finished before one created
\* earlier, and the last role's query was the first not to give its reply
C1_ReturnedAfterOvertaking ==
    /\ outcome.kind = "returned"
    /\ overtaken
    /\ responses[NumRoles] = NoResponse
    /\ Len(outcome.result.role_evaluations) = NumRoles

\* C2 (SpecAggregate): in every returned result in which a hard-gate role has
\* result FAIL, hard_gate_failed is true, final_effectiveness_index is 0.0 and
\* the verdict is "DO NOT RECOMMEND", whatever the other roles scored.
C2_HardGateFailForcesZero ==
    outcome.kind = "returned" =>
        LET res == outcome.result
        IN  (\E i \in 1..Len(res.role_evaluations) :
                /\ res.role_evaluations[i].is_hard_gate
                /\ res.role_evaluations[i].result = "FAIL")
            => /\ res.hard_gate_failed
               /\ res.failed_hard_gate_role # "None"
               /\ res.final_effectiveness_index = 0
               /\ res.final_report.verdict = "DO NOT RECOMMEND"

\* A returned result where the second hard gate (role 3) failed, the first
\* passed, and every other role gave the best verdict
C2_SecondGateFailsOthersBest ==
    /\ outcome.kind = "returned"
    /\ outcome.result.role_evaluations[3].result = "FAIL"
    /\ \A r \in RoleIds \ {3} :
          /\ outcome.result.role_evaluations[r].result = "PASS"
          /\ outcome.result.role_evaluations[r].score = MaxScore
          /\ outcome.result.role_evaluations[r].confidence = MaxConfidence
    /\ outcome.result.failed_hard_gate_role = ROLES[3].name

\* The scenario of C3: every role got its nominal reply (PASS, score 8.0,
\* confidence 0.9; the pattern breaker PASS, score 2.0, confidence 0.9)
AllNominal == \A r \in RoleIds : responses[r] = NominalReply[r]

\* score x confidence x weight summed over the roles other than the pattern
\* breaker, and the pattern breaker's penalty, in the nominal scenario
NominalTotal ==
    80 * 9 * (15 + 12 + 12 + 10 + 10 + 9 + 8)

NominalPenalty == 20 * 9 * PenaltyFactor

\* C3 as stated: in the nominal scenario the verdict is "RECOMMEND".
C3_NominalIsRecommended ==
    (outcome.kind = "returned" /\ AllNominal) =>
        outcome.result.final_report.verdict = "RECOMMEND"

\* C3, amended: in the nominal scenario the index is the weighted sum less the
\* pattern-breaker penalty over max_possible, 67.3, which is below 70, and the
\* verdict is "REVISE BEFORE RECOMMENDATION".
C3_NominalIsRevise ==
    (outcome.kind = "returned" /\ AllNominal) =>
        /\ 10 * outcome.result.final_effectiveness_index * MaxPossible
              - 10 * (NominalTotal - NominalPenalty) \in -5 * MaxPossible .. 5 * MaxPossible
        /\ outcome.result.final_effectiveness_index = 673
        /\ outcome.result.final_report.verdict = "REVISE BEFORE RECOMMENDATION"

\* The nominal scenario has returned
C3_NominalReturned ==
    /\ outcome.kind = "returned"
    /\ AllNominal
    /\ ~outcome.result.hard_gate_failed

\* The query of role r raised a rate-limit error and no other task has
\* raised: the others are pending, completed or degraded
OnlyRateLimited(r) ==
    /\ responses[r] = Raise(RateLimitError)
    /\ \A q \in RoleIds \ {r} : task[q] # "raised"

\* C4: when the query of one role raises a rate-limit error, the gather is
\* failed with that error, the run returns no EvaluationResult, and what the
\* caller gets raised is that same error, whatever state the other seven role
\* evaluations are in.
C4_RateLimitFailsTheRun ==
    \A r \in RoleIds :
        OnlyRateLimited(r) =>
            /\ first_exception = [error |-> RateLimitError, role |-> r]
            /\ phase \in {"RolesDispatched", "Failed"}
            /\ outcome.kind # "returned"
            /\ outcome.kind = "raised" =>
                  (outcome.error = RateLimitError /\ outcome.role = r)

\* The caller got the rate-limit error of one role while another role was
\* still querying, another had completed and another was degraded
C4_RaisedWithOthersInEveryState ==
    /\ outcome.kind = "raised"
    /\ outcome.error = RateLimitError
    /\ OnlyRateLimited(outcome.role)
    /\ \E q \in RoleIds : task[q] = "querying"
    /\ \E q \in RoleIds : task[q] = "returned" /\ responses[q] = NominalReply[q]
    /\ \E q \in RoleIds : task[q] = "returned" /\ responses[q] = NoResponse

\* C5: a per-role failure that is not a rate-limit error from the query never
\* makes the run raise, i.e. whenever the run raised, the role whose task
\* raised had a query that raised a rate-limit error.
C5_OnlyRateLimitErrorsRaise ==
    outcome.kind = "raised" => responses[outcome.role] = Raise(RateLimitError)

\* What calculate_fei sums when role r got no response and every other role
\* its nominal reply, in thousandths
TotalWithNoResponseAt(r) ==
    IF r = PatternBreakerId
    THEN NominalTotal - 50 * 3 * PenaltyFactor
    ELSE NominalTotal - 80 * 9 * ROLES[r].weight + 50 * 3 * ROLES[r].weight
            - NominalPenalty

\* C6: a role whose query returns no response gets the evaluation (PASS,
\* score 5.0, confidence 0.3, no layer scores); and when every other role
\* replies, the run does not fail and its result carries the verdicts of the
\* other seven replies and the index aggregated from all eight.
C6_NoResponseIsNeutralPass ==
    \A r \in RoleIds :
        responses[r] = NoResponse =>
            /\ task[r] = "returned"
            /\ evaluation[r].role_id = r
            /\ evaluation[r].result = "PASS"
            /\ evaluation[r].score = 50
            /\ evaluation[r].confidence = 3
            /\ evaluation[r].layer_scores = <<>>
            /\ (\A q \in RoleIds \ {r} : responses[q] \in {NotYet, NominalReply[q]}) =>
                  /\ phase # "Failed"
                  /\ outcome.kind # "raised"
                  /\ outcome.kind = "returned" =>
                        /\ outcome.result.role_evaluations[r] = evaluation[r]
                        /\ \A q \in RoleIds \ {r} :
                              /\ outcome.result.role_evaluations[q].result = "PASS"
                              /\ outcome.result.role_evaluations[q].score =
                                    (IF q = PatternBreakerId THEN 20 ELSE 80)
                              /\ outcome.result.role_evaluations[q].confidence = 9
                        /\ ~outcome.result.hard_gate_failed
                        /\ 10 * outcome.result.final_effectiveness_index * MaxPossible
                              - 10 * TotalWithNoResponseAt(r)
                              \in -5 * MaxPossible .. 5 * MaxPossible

\* A returned result of a run where role 4, not a hard gate, got no response
\* and the other seven their replies
C6_ReturnedWithOneNoResponse ==
    /\ outcome.kind = "returned"
    /\ responses[4] = NoResponse
    /\ \A q \in RoleIds \ {4} : responses[q] = NominalReply[q]
    /\ outcome.result.role_evaluations[4].confidence = 3
    /\ phase = "Reported"

\* What the eight tasks return for the replies resps, in role-id order
EvaluationsOf(resps) == [i \in 1..NumRoles |-> RoleOutcome[i][resps[i]].value]

\* C14: what a run returns is fixed by the input and the replies the roles
\* got, read in role-id order, whatever order the queries completed in: the
\* evaluations, the index (up to the direction the float rounding takes at an
\* exact tie, which the same operands fix as well), the verdict, top_strengths
\* and top_risks.
C14_ResultFixedByReplies ==
    outcome.kind = "returned" =>
        LET evals == EvaluationsOf(responses)
            res == outcome.result
            gate == first_hard_gate_fail(evals, 1)
            report == generate_final_report(evals, res.final_effectiveness_index,
                                            input_data.campaign_objective)
        IN  /\ res.role_evaluations = evals
            /\ \E tie_up \in BOOLEAN :
                  res.final_effectiveness_index =
                      (IF gate > 0 THEN 0 ELSE calculate_fei(evals, tie_up))
            /\ res.final_report =
                  (IF gate > 0 THEN override_hard_gate(report, evals[gate].role_name)
                   ELSE report)

\* A result returned after a task overtook an earlier one, with three
\* strengths and more than the pattern breaker among the risks
C14_ReturnedOutOfOrderWithLists ==
    /\ outcome.kind = "returned"
    /\ overtaken
    /\ Len(outcome.result.final_report.top_strengths) = MaxListed
    /\ Len(outcome.result.final_report.top_risks) >= 2
    /\ outcome.result.final_report.top_risks[1].role_id # PatternBreakerId

\* C15: once a rate-limit error has failed the run, the role tasks still in
\* flight are cancelled: no task changes state, gets a reply or builds a
\* RoleEvaluation after that.
C15_SiblingsCancelledOnFailure ==
    [][(phase = "Failed" /\ outcome.error = RateLimitError)
          => UNCHANGED <<task, responses, evaluation>>]_vars

----------------------------------------------------------------------------
(* Properties of the run with a progress sink, under SpecSink *)

\* C16: the sink is observational: a run raises only if a role's query or
\* reply makes it raise without a sink too, and every evaluation a task
\* returns, and so every returned result, is the one the role's reply gives
\* without a sink, also when the sink raises on a call.
C16_SinkIsObservational ==
    /\ outcome.kind = "raised" =>
          \E r \in RoleIds :
              responses[r] # NotYet /\ RoleOutcome[r][responses[r]].raised
    /\ \A r \in RoleIds :
          task[r] = "returned" =>
              /\ responses[r] # NotYet
              /\ evaluation[r] = RoleOutcome[r][responses[r]].value

\* Where a status stands in the lifecycle
Rank(status) ==
    CASE status = "queued" -> 1 [] status = "processing" -> 2 [] status = "complete" -> 3

\* C17: in a run that returns a result with a sink attached, the calls for
\* each role are one "queued", then one or more "processing", then one
\* "complete" that carries the role's RoleEvaluation, and nothing after it;
\* no "queued" call comes after a "processing" call of any role; and at every
\* point of every run the calls for a role made so far are in that order.
C17_EventsInLifecycleOrder ==
    /\ \A r \in RoleIds :
          LET log == events[r]
          IN  /\ \A i \in 1..Len(log) - 1 :
                    /\ Rank(log[i].status) <= Rank(log[i + 1].status)
                    /\ log[i].status # "complete"
                    /\ log[i + 1].status # "queued"
              /\ ~late_queued
    /\ outcome.kind = "returned" =>
          \A r \in RoleIds :
              LET log == events[r]
                  n == Len(log)
              IN  /\ n >= 3
                  /\ log[1].status = "queued"
                  /\ \A i \in 2..n - 1 : log[i].status = "processing"
                  /\ log[n].status = "complete"
                  /\ log[n].result = outcome.result.role_evaluations[r]

\* A result returned to a caller with a well-behaved sink, after a task
\* overtook another, one role having had no response and so fewer calls
C17_ReturnedWithSink ==
    /\ outcome.kind = "returned"
    /\ sink = RecordingSink
    /\ overtaken
    /\ \E r \in RoleIds : responses[r] = NoResponse /\ Len(events[r]) = 5
    /\ \E r \in RoleIds : Len(events[r]) = 6

----------------------------------------------------------------------------
(* Properties of the aggregation, under SpecAggregate *)

\* C7: the index calculate_fei computes for the gathered evaluations lies in
\* [0, 100] however the rounding falls, a pattern-breaker penalty that is at
\* least the positive sum gives 0, and the index of every returned result
\* lies in [0, 100].
C7_IndexWithinRange ==
    /\ phase = "Aggregated" =>
          \A tie_up \in BOOLEAN :
              LET acc == fei_loop(role_evaluations, 1, 0, 0)
                  index == calculate_fei(role_evaluations, tie_up)
              IN  /\ index \in 0..10 * MaxScore
                  /\ acc.penalty >= acc.total => index = 0
                  /\ fei \in 0..10 * MaxScore
    /\ outcome.kind = "returned" =>
          outcome.result.final_effectiveness_index \in 0..10 * MaxScore

\* A returned result, no hard gate failed, where the pattern breaker's penalty
\* exceeded the positive sum and the index is 0
C7_PenaltyAboveSumGivesZero ==
    /\ outcome.kind = "returned"
    /\ ~outcome.result.hard_gate_failed
    /\ LET acc == fei_loop(outcome.result.role_evaluations, 1, 0, 0)
       IN  acc.penalty > acc.total /\ acc.penalty > 0
    /\ outcome.result.final_effectiveness_index = 0

\* score x confidence x weight summed over the evaluations at the indices S
\* that are not FAIL and not the pattern breaker's, in thousandths
RECURSIVE PositiveSum(_, _)
PositiveSum(evals, S) ==
    IF S = {} THEN 0
    ELSE LET i == CHOOSE x \in S : TRUE
             e == evals[i]
         IN  (IF e.result # "FAIL" /\ e.role_id # PatternBreakerId
              THEN ScoreOr0(e.score) * e.confidence * ROLES[e.role_id].weight
              ELSE 0)
             + PositiveSum(evals, S \ {i})

\* Scores and confidences to give a role in place of its own
OtherScores == {NoScore, 0, MaxScore}

OtherConfidences == {0, MaxConfidence}

\* C8: calculate_fei's positive sum is the sum of score x confidence x weight
\* over the roles that are not FAIL and not role 6; another score or
\* confidence for a FAIL role leaves the index as it is; role 6 only enters
\* through the penalty score x confidence x 0.5 (0 without a score, or when it
\* is FAIL), and a higher score for role 6 never gives a higher index.
C8_FailsAndPatternBreakerAddNothing ==
    phase = "Aggregated" =>
        LET evals == role_evaluations
            acc == fei_loop(evals, 1, 0, 0)
            breaker == evals[PatternBreakerId]
        IN  /\ acc.total = PositiveSum(evals, 1..Len(evals))
            /\ acc.penalty =
                  (IF breaker.result = "FAIL" THEN 0
                   ELSE ScoreOr0(breaker.score) * breaker.confidence * PenaltyFactor)
            /\ ~hard_gate_failed =>
                  10 * fei * MaxPossible - 10 * Max(0, acc.total - acc.penalty)
                      \in -5 * MaxPossible .. 5 * MaxPossible
            /\ \A tie_up \in BOOLEAN :
                  /\ \A i \in 1..Len(evals) :
                        evals[i].result = "FAIL" =>
                            \A s \in OtherScores, c \in OtherConfidences :
                                calculate_fei([evals EXCEPT ![i].score = s,
                                                            ![i].confidence = c], tie_up)
                                    = calculate_fei(evals, tie_up)
                  /\ \A s \in OtherScores :
                        s > breaker.score =>
                            calculate_fei([evals EXCEPT ![PatternBreakerId].score = s],
                                          tie_up)
                                <= calculate_fei(evals, tie_up)

\* An index was calculated for evaluations where a role that is no hard gate
\* FAILed with a score, and the pattern breaker passed with a score that
\* could be higher
C8_IndexWithFailAndPenalty ==
    /\ phase = "Aggregated"
    /\ ~hard_gate_failed
    /\ role_evaluations[1].result = "FAIL"
    /\ role_evaluations[1].score > 0
    /\ role_evaluations[PatternBreakerId].result = "PASS"
    /\ role_evaluations[PatternBreakerId].score \in 1..MaxScore - 1
    /\ fei > 0

\* C9: the verdict of every returned result follows the policy in its order:
\* "DO NOT RECOMMEND" if any role FAILed, else "RECOMMEND" from 70, else
\* "REVISE BEFORE RECOMMENDATION" from 40, else "DO NOT RECOMMEND"; so a
\* verdict of RECOMMEND has no FAIL behind it and an index of at least 70.
C9_VerdictFollowsPolicy ==
    outcome.kind = "returned" =>
        LET res == outcome.result
            any_fail == \E i \in 1..Len(res.role_evaluations) :
                            res.role_evaluations[i].result = "FAIL"
            index == res.final_effectiveness_index
            verdict == res.final_report.verdict
        IN  /\ any_fail => verdict = "DO NOT RECOMMEND"
            /\ (~any_fail /\ index >= 700) => verdict = "RECOMMEND"
            /\ (~any_fail /\ index >= 400 /\ index < 700) =>
                  verdict = "REVISE BEFORE RECOMMENDATION"
            /\ (~any_fail /\ index < 400) => verdict = "DO NOT RECOMMEND"
            /\ verdict = "RECOMMEND" => (~any_fail /\ index >= 700)

\* A result returned with RECOMMEND although one role scored low
C9_RecommendedWithAWeakRole ==
    /\ outcome.kind = "returned"
    /\ outcome.result.final_report.verdict = "RECOMMEND"
    /\ \E i \in RoleIds : outcome.result.role_evaluations[i].score = 30
    /\ outcome.result.final_effectiveness_index \in 700..999

\* C10: top_risks of every returned result has at most 3 entries, also when
\* a hard-gate failure entry was put in the first slot.
C10_AtMostThreeRisks ==
    outcome.kind = "returned" =>
        Len(outcome.result.final_report.top_risks) <= MaxListed

\* C11: top_risks of every returned result contains the truncated
\* justification of the pattern breaker (role 6), whatever the other roles
\* scored.
C11_PatternBreakerAlwaysListed ==
    outcome.kind = "returned" =>
        LET res == outcome.result
            breaker == res.role_evaluations[PatternBreakerId]
        IN  \E j \in 1..Len(res.final_report.top_risks) :
                res.final_report.top_risks[j] =
                    Entry("justification", PatternBreakerId,
                          Truncate(breaker.justification, StrengthBudget))

----------------------------------------------------------------------------
(* Properties of the parser, under SpecParse *)

\* The texts a JSON value could be decoded from: the whole text, the content
\* of its fenced block, and the brace-delimited span of either
Candidates(text) ==
    {text, extract_block(text), regex_brace_span(text),
     regex_brace_span(extract_block(text))}

\* C12: parse_evaluation_response returns a value for every text, and for a
\* text from which no JSON value can be decoded (not from the fenced block,
\* not from the whole text, not from the brace-delimited span) that value is
\* the fallback {PASS, 5.0, 0.3, "Failed to parse response"}.
C12_UndecodableGivesFallback ==
    parse_result # NotParsed =>
        /\ parse_result.ok
        /\ (\A c \in Candidates(reply_text) : ~json_loads(c).ok) =>
              parse_result = FailedToParse

\* The fallback was returned for a text with a fence marker and with braces
\* from which nothing could be decoded
C12_FallbackForFencedGarbage ==
    /\ parse_result = FailedToParse
    /\ FindFrom(reply_text, FENCE, 1) > 0
    /\ regex_brace_span(reply_text) # <<>>
    /\ \A c \in Candidates(reply_text) : ~json_loads(c).ok

\* C13: for a well-formed verdict object in a fenced block, tagged or not,
\* with prose before and after, parse_evaluation_response returns exactly the
\* object's fields, also when the prose or a string value of the object has
\* braces or fence markers in it.
C13_FencedObjectRoundTrips ==
    (parse_result # NotParsed /\ embedded.form \in {"tagged", "untagged"}) =>
        /\ parse_result.type = "dict"
        /\ parse_result.items = embedded.fields

----------------------------------------------------------------------------
(* More properties of the aggregation, under SpecAggregate *)

\* C19: in every returned result a RoleEvaluation has a score only if its
\* result is PASS, a score that is present lies in [0, 10], and the confidence
\* lies in [0, 1].
C19_ScoreOnlyIfPass ==
    outcome.kind = "returned" =>
        \A i \in 1..Len(outcome.result.role_evaluations) :
            LET e == outcome.result.role_evaluations[i]
            IN  /\ e.score # NoScore => e.result = "PASS"
                /\ e.score # NoScore => e.score \in 0..MaxScore
                /\ e.confidence \in 0..MaxConfidence

----------------------------------------------------------------------------
(* Properties of the evaluate endpoints, under SpecEndpoint *)

\* The body fails validate_input, or no EvaluationInput can be built from it
Unacceptable(data) ==
    LET validation == validate_input(data)
    IN  \/ validation.raised
        \/ ~validation.value.valid
        \/ to_evaluation_input(data).raised

\* C20: for a request that fails validate_input or whose EvaluationInput
\* cannot be constructed, on either endpoint, no role is ever dispatched and no
\* model query is issued, and the answer is an HTTP 400; this includes a
\* request with a file attached whose missing fields validation downgraded to
\* warnings.
C20_RejectedBeforeDispatch ==
    (request # NoRequest /\ Unacceptable(request.data)) =>
        /\ \A r \in RoleIds : task[r] = "none" /\ responses[r] = NotYet
        /\ outcome = Pending
        /\ phase \in {"Received", "Answered"}
        /\ phase = "Answered" =>
              http.kind = "HTTPException" /\ http.status_code = 400

----------------------------------------------------------------------------
(* More properties of the run, under Spec *)

\* The hard-gate roles whose evaluation in the list is a FAIL
FailedGates(evals) ==
    {r \in RoleIds : /\ ROLES[r].is_hard_gate
                     /\ \E i \in 1..Len(evals) :
                           evals[i].role_id = r /\ evals[i].result = "FAIL"}

\* C21: in a returned result failed_hard_gate_role is set exactly when
\* hard_gate_failed is true, which is exactly when some hard-gate role's result
\* is FAIL; it then names the failed hard-gate role of lowest id, in whatever
\* order the roles completed, and the first entry of top_risks names that role.
C21_LowestFailedGateIsNamed ==
    outcome.kind = "returned" =>
        LET res == outcome.result
            gates == FailedGates(res.role_evaluations)
        IN  /\ res.hard_gate_failed <=> res.failed_hard_gate_role # "None"
            /\ res.hard_gate_failed <=> gates # {}
            /\ gates # {} =>
                 LET lowest == CHOOSE r \in gates : \A q \in gates : r <= q
                 IN  /\ res.failed_hard_gate_role = ROLES[lowest].name
                     /\ res.final_report.top_risks[1].kind = "HARD GATE FAILED: role_name"
                     /\ res.final_report.top_risks[1].text.text = ROLES[lowest].name

\* A returned result where both hard gates failed, some task having finished
\* before a task created earlier, and role 2 is the one named
C21_BothGatesFailedOutOfOrder ==
    /\ outcome.kind = "returned"
    /\ FailedGates(outcome.result.role_evaluations) = {2, 3}
    /\ overtaken
    /\ outcome.result.failed_hard_gate_role = ROLES[2].name

----------------------------------------------------------------------------
(* Termination of the run, under SpecFair *)

\* The caller got one full EvaluationResult: eight role evaluations, the
\* index, the report and the appendix
ReturnedInFull ==
    /\ outcome.kind = "returned"
    /\ Len(outcome.result.role_evaluations) = NumRoles
    /\ outcome.result.final_effectiveness_index \in 0..1000
    /\ outcome.result.final_report # NoReport
    /\ DOMAIN outcome.result.analysis_appendix # {}

\* C22: when every query resolves, every run eventually ends, either with one
\* full EvaluationResult returned or with the rate-limit error raised.
C22_EndsInResultOrRateLimit ==
    <>(ReturnedInFull \/ (outcome.kind = "raised" /\ outcome.error = RateLimitError))

----------------------------------------------------------------------------
(* More properties of the per-role handling, under Spec *)

\* C23: when the query of a role raised an error that is not a rate-limit
\* error, the role's evaluation is (PASS, score 5.0, confidence 0.2, no layer
\* scores) with the error text embedded in its justification, and it keeps the
\* hard-gate flag of the role.
C23_OtherQueryErrorsDegrade ==
    \A r \in RoleIds :
        (responses[r].kind = "raise" /\ responses[r].error # RateLimitError) =>
            /\ task[r] = "returned"
            /\ evaluation[r].result = "PASS"
            /\ evaluation[r].score = 50
            /\ evaluation[r].confidence = 2
            /\ evaluation[r].layer_scores = <<>>
            /\ evaluation[r].justification =
                  Justification("Evaluation error", 18 + responses[r].error.len)
            /\ evaluation[r].is_hard_gate = ROLES[r].is_hard_gate

----------------------------------------------------------------------------
(* More properties of the parser, under SpecParse *)

HasToken(text, tok) == \E i \in 1..Len(text) : text[i] = tok

\* C24: for a text without a fence that is not JSON as a whole and consists of
\* brace-free prose (or nothing), one well-formed object, and any further
\* prose, also prose with braces in it, parse_evaluation_response returns the
\* fields of that object and not the fallback.
C24_FirstObjectDecoded ==
    (/\ parse_result # NotParsed
     /\ embedded.form = "bare"
     /\ embedded.mark = NoMark
     /\ ~HasToken(reply_text, FENCE)
     /\ ~HasToken(embedded.before, LBRACE)
     /\ ~json_loads(reply_text).ok) =>
        /\ parse_result.type = "dict"
        /\ parse_result.items = embedded.fields

----------------------------------------------------------------------------
(* Properties of the report and the appendix, under SpecAggregate *)

\* The roles whose justification is an entry of the list
RolesBehind(entries) ==
    {entries[i].role_id : i \in {j \in 1..Len(entries) : entries[j].role_id \in RoleIds}}

Listed(names) == {names[i] : i \in 1..Len(names)}

\* C25: in a returned result every role whose justification is in
\* final_report.top_risks is listed under "risks" of the appendix's
\* verdict_traceability, and every role whose justification is in
\* top_strengths is listed under "strengths".
C25_TraceabilityBacksTheReport ==
    outcome.kind = "returned" =>
        LET report == outcome.result.final_report
            trace == outcome.result.analysis_appendix.verdict_traceability
        IN  /\ \A r \in RolesBehind(report.top_risks) :
                  ROLES[r].name \in Listed(trace.risks)
            /\ \A r \in RolesBehind(report.top_strengths) :
                  ROLES[r].name \in Listed(trace.strengths)

----------------------------------------------------------------------------
(* Weak scores in the report and the appendix, under Spec *)

\* C26: in a returned result every role other than the pattern breaker whose
\* score is below 5, a score of exactly 0 included, has a risk entry (role name
\* and truncated justification) among the candidates top_risks is cut from,
\* and is in the appendix's raw scores with its score.
C26_WeakScoresAreReported ==
    outcome.kind = "returned" =>
        LET evals == outcome.result.role_evaluations
            candidates == risks_loop(evals, 1)
            raw == outcome.result.analysis_appendix.raw_score_summary
        IN  \A i \in 1..Len(evals) :
                (/\ evals[i].role_id # PatternBreakerId
                 /\ evals[i].score # NoScore
                 /\ evals[i].score < 50) =>
                    /\ \E j \in 1..Len(candidates) :
                          candidates[j] =
                              Entry("role_name: justification", evals[i].role_id,
                                    Truncate(evals[i].justification, RiskBudget))
                    /\ \E j \in 1..Len(raw) :
                          raw[j] = <<evals[i].role_name, evals[i].score>>

----------------------------------------------------------------------------
(* A decoded FAIL, under Spec *)

\* C27: when the reply of a role decodes to an object whose result is FAIL,
\* the evaluation recorded for the role has result FAIL, whatever the other
\* fields of the reply hold; so the decoded FAIL of a hard-gate role sets
\* hard_gate_failed in the returned result.
C27_DecodedFailIsRecorded ==
    \A r \in RoleIds :
        (/\ responses[r].kind = "reply"
         /\ parse_evaluation_response(responses[r].content).type = "dict"
         /\ Get(parse_evaluation_response(responses[r].content).items,
                "result", "PASS") = "FAIL") =>
            /\ task[r] = "returned"
            /\ evaluation[r].result = "FAIL"
            /\ (ROLES[r].is_hard_gate /\ outcome.kind = "returned") =>
                   outcome.result.hard_gate_failed

----------------------------------------------------------------------------
(* The backend's rate limit, under SpecBackend *)

\* Gemini is selected and there is no OpenRouter key to fall back on
GeminiOnly(config) == calls_gemini(config) /\ ~KeySet(config.OPENROUTER_API_KEY)

\* C28: with the Gemini backend selected and no OpenRouter key, an HTTP 429
\* answer from Gemini makes query_llm raise an error whose text has 429 in it,
\* so the task of the role raises and the run returns no result.
C28_GeminiRateLimitAbortsRun ==
    \A r \in RoleIds :
        (GeminiOnly(backend) /\ answers[r].gemini = GeminiRateLimited) =>
            /\ responses[r].kind = "raise"
            /\ responses[r].error.has_429
            /\ task[r] = "raised"
            /\ outcome.kind # "returned"

----------------------------------------------------------------------------
(* The order of the streamed events, under SpecStream *)

\* The events yielded so far
Sent == IF http.kind = "stream" THEN http.detail ELSE <<>>

Terminals == {i \in 1..Len(Sent) : Sent[i].type \in {"complete", "error"}}

RoleCompletes == SelectSeq(Sent, LAMBDA e : e.type = "role_complete")

ProgressEvents == SelectSeq(Sent, LAMBDA e : e.type \in {"role_update", "role_complete"})

RECURSIVE CallsMade(_)
CallsMade(r) == IF r = 0 THEN 0 ELSE Len(events[r]) + CallsMade(r - 1)

StreamShape ==
    /\ Sent # <<>> => Sent[1].type = "start"
    /\ \A i \in 2..Len(Sent) : Sent[i].type # "start"
    /\ Len(ProgressEvents) + Len(queue) = CallsMade(NumRoles)
    /\ Cardinality(Terminals) <= 1
    /\ \A i \in Terminals : i = Len(Sent)
    /\ (phase = "Answered") = (Terminals # {})
    /\ \A i \in Terminals :
          /\ (Sent[i].type = "complete") = (outcome.kind = "returned")
          /\ (Sent[i].type = "error") = (outcome.kind = "raised")
          /\ outcome.kind = "returned" =>
                (outcome.result.hard_gate_failed
                     = (i > 1 /\ Sent[i - 1].type = "hard_gate_failed"))
    /\ \A i \in 1..Len(Sent) :
          Sent[i].type = "hard_gate_failed" =>
              (i + 1 \in Terminals /\ Sent[i + 1].type = "complete")
    /\ \A k \in 1..Len(RoleCompletes) :
          RoleCompletes[k].progress = k /\ k <= NumRoles

\* The step that yields the terminal event finds the queue empty
ClosedWhenDrained == (Terminals = {} /\ Terminals' # {}) => queue = <<>>

\* C29: the stream begins with "start"; every progress event queued before the
\* terminal event is yielded is relayed before it, in the order queued; there
\* is one terminal event and it ends the stream: "complete" when the run
\* returned, preceded by "hard_gate_failed" exactly when the result has
\* hard_gate_failed, and "error" when it raised; the k-th role_complete event
\* carries progress k, at most 8.
C29_StreamOrder == []StreamShape /\ [][ClosedWhenDrained]_vars

C29_GateFailureStreamed ==
    /\ phase = "Answered"
    /\ Len(RoleCompletes) = NumRoles
    /\ Len(Sent) > 2
    /\ Sent[Len(Sent)].type = "complete"
    /\ Sent[Len(Sent) - 1].type = "hard_gate_failed"
    /\ \E i \in 1..Len(Sent) : Sent[i].type = "heartbeat"

----------------------------------------------------------------------------
(* The peak of the index, under SpecIndex *)

\* calculate_fei has run on the list gather returned
IndexComputed == phase \in {"Aggregated", "Reported"} /\ ~hard_gate_failed

\* total and pattern_breaker_penalty of the list, in thousandths
Sums == fei_loop(role_evaluations, 1, 0, 0)

\* The total when every role that adds to it has PASS, score 10, confidence 1
RECURSIVE FullMarks(_)
FullMarks(r) ==
    IF r = 0 THEN 0
    ELSE (IF r = PatternBreakerId THEN 0 ELSE 100 * 10 * get_role_weights[r])
         + FullMarks(r - 1)

\* 95.0, in tenths
PeakIndex == FullMarks(NumRoles) \div MaxPossible

AllAtFullMarks ==
    \A i \in 1..Len(role_evaluations) :
        role_evaluations[i].role_id # PatternBreakerId =>
            /\ role_evaluations[i].result = "PASS"
            /\ role_evaluations[i].score = 100
            /\ role_evaluations[i].confidence = 10

\* C30 as stated: the index never exceeds 95.0, the clamp at 100 is never
\* reached, and the index is 95.0 only when all seven roles that add to the
\* total have PASS, score 10 and confidence 1 and the penalty is 0.
C30_PeakOnlyWithoutPenalty ==
    IndexComputed =>
        /\ fei <= PeakIndex
        /\ Sums.total - Sums.penalty < 1000 * MaxPossible
        /\ fei = PeakIndex => (AllAtFullMarks /\ Sums.penalty = 0)

\* C30, amended: the index never exceeds 95.0 and the clamp at 100 is never
\* reached; the index is 95.0 only when none of the seven roles that add to
\* the total has FAIL and total minus penalty is within half a tenth of the
\* index below full marks, and it is 95.0 whenever it is strictly within.
C30_PeakWithinRounding ==
    IndexComputed =>
        /\ fei <= PeakIndex
        /\ Sums.total - Sums.penalty < 1000 * MaxPossible
        /\ fei = PeakIndex =>
              /\ \A i \in 1..Len(role_evaluations) :
                    role_evaluations[i].role_id # PatternBreakerId =>
                        role_evaluations[i].result = "PASS"
              /\ 2 * (Sums.total - Sums.penalty) >= (2 * PeakIndex - 1) * MaxPossible
        /\ 2 * (Sums.total - Sums.penalty) > (2 * PeakIndex - 1) * MaxPossible =>
              fei = PeakIndex

C30_PeakWithPenalty ==
    /\ IndexComputed
    /\ fei = PeakIndex
    /\ Sums.penalty > 0

====
